---- MODULE Spec2Model ----
(***************************************************************************)
(* Synchronisation and cache engine of the lottery analyser.               *)
(*                                                                         *)
(* One lottery variant (Mega-Sena) is modelled: its persisted store        *)
(* public/data/megasena.json, the remote feed, and the sync cycles that    *)
(* read and write the store:                                               *)
(*   - LotteryDataManager.syncData, reached through                        *)
(*     DataManager.getLotteryData and through syncWithRetry (the scheduled *)
(*     script, which saves the returned draws once more);                  *)
(*   - syncLottery of scripts/sync-local.js, whose body the                *)
(*     /api/sync-lottery handler repeats line for line.                    *)
(* Every action is the code between two awaits of the handler it models.   *)
(* Of a draw record only concurso and numeros are kept: the other fields   *)
(* (data, acumulado, ...) are copied through and decide nothing here.      *)
(***************************************************************************)
EXTENDS Integers, Sequences, FiniteSets, TLC

(***************************************************************************)
(* Bounds of the model.                                                    *)
(***************************************************************************)
\* highest contest number the remote feed ever publishes
MaxContest == 2
\* number of timestamps (new Date()) the writers may draw
MaxClock == 2
\* the gap analysis alone: highest contest number held in the cache, and a
\* remote latest contest beyond the first-run window
GapContests == 6
GapLatest == 2500
\* the fetch loops alone: highest contest held in the cache, longest list of
\* contests to fetch, and number of requests of a cycle that may fail
\* the validation alone: how many entries a payload's list may have beyond
\* numbersCount
MaxExtra == 1
MaxCached == 3
MaxBatchList == 12
MaxFailures == 1
\* the requests one by one: longest list of contests to fetch
MaxFlightList == 10
\* the scheduled script beside the other invokers: backups it may make
MaxScriptBackups == 1
\* createBackup alone: earlier days of which ./backups may hold the backup
MaxOldBackups == 9
\* the prediction engine: highest number of a game, and most combinations
\* asked of generateMultipleCombinations
MaxGameNumber == 5
MaxCount == 2
MaxReports == 2
MaxDays == 2

(***************************************************************************)
(* Program constants.                                                      *)
(***************************************************************************)
\* LOTTERY_CONFIGS.megasena
numbersCount == 6
minNumber == 1
maxNumber == 60
\* fetchContestsInBatches
batchSize == 5
maxNewContests == 50
\* fetchWithRetry(url, retries = 3)
retries == 3
\* CONFIG.maxRetries of the scheduled sync script
maxRetries == 3
\* CONFIG.keepBackups of the scheduled sync script
keepBackups == 7
\* generateCombinatorial: const maxAttempts
maxAttempts == 100
\* generateGoldenRatio: const phi = 1.618033988749895, in thousandths
phi == 1618
\* first-run window of the cache documentation ("ultimos 1000 concursos")
WINDOW == 1000

(***************************************************************************)
(* JavaScript helpers.                                                     *)
(***************************************************************************)
Max(a, b) == IF a >= b THEN a ELSE b
Min(a, b) == IF a <= b THEN a ELSE b

Range(s) == {s[i] : i \in 1..Len(s)}

\* Math.max(...xs) of a non-empty set of integers
MathMax(S) == CHOOSE m \in S : \A x \in S : x <= m

\* Array.prototype.slice(0, n)
Slice0(s, n) == SubSeq(s, 1, Min(n, Len(s)))

\* A JavaScript string is the sequence of its characters.
Digits == <<"0", "1", "2", "3", "4", "5", "6", "7", "8", "9">>
IsDigit(c) == \E i \in 1..10 : Digits[i] = c
DigitVal(c) == (CHOOSE i \in 1..10 : Digits[i] = c) - 1

RECURSIVE ParseDigits(_, _)
ParseDigits(str, acc) ==
    IF str = <<>> \/ ~IsDigit(Head(str)) THEN acc
    ELSE ParseDigits(Tail(str), 10 * acc + DigitVal(Head(str)))

\* parseInt(str): the leading decimal digits, NaN when there is none
parseInt(str) ==
    IF str = <<>> \/ ~IsDigit(Head(str)) THEN [nan |-> TRUE, val |-> 0]
    ELSE [nan |-> FALSE, val |-> ParseDigits(str, 0)]

\* numbers.sort((a, b) => a - b): Array.prototype.sort is stable
RECURSIVE InsertNumber(_, _)
InsertNumber(x, s) ==
    IF s = <<>> THEN <<x>>
    ELSE IF x < Head(s) THEN <<x>> \o s
         ELSE <<Head(s)>> \o InsertNumber(x, Tail(s))

RECURSIVE SortNumbers(_)
SortNumbers(s) ==
    IF s = <<>> THEN <<>>
    ELSE InsertNumber(s[Len(s)], SortNumbers(SubSeq(s, 1, Len(s) - 1)))

\* draws.sort((a, b) => a.concurso - b.concurso): equal contests keep their order
RECURSIVE InsertDraw(_, _)
InsertDraw(d, s) ==
    IF s = <<>> THEN <<d>>
    ELSE IF d.concurso < Head(s).concurso THEN <<d>> \o s
         ELSE <<Head(s)>> \o InsertDraw(d, Tail(s))

RECURSIVE SortDraws(_)
SortDraws(draws) ==
    IF draws = <<>> THEN <<>>
    ELSE InsertDraw(draws[Len(draws)], SortDraws(SubSeq(draws, 1, Len(draws) - 1)))

\* draws.map(d => d.concurso) as a set
ContestNumbers(draws) == {draws[i].concurso : i \in 1..Len(draws)}

(***************************************************************************)
(* The remote feed.  A payload field is either undefined or an array of    *)
(* numeric strings; a request either fails (network error, HTTP status     *)
(* not ok) or yields a payload.                                            *)
(***************************************************************************)
Undefined == [def |-> FALSE, arr |-> <<>>]
Arr(a) == [def |-> TRUE, arr |-> a]

\* two valid Mega-Sena results in draw order, and one that lacks a number
DezenasA == << <<"4","1">>, <<"0","5">>, <<"0","4">>, <<"5","2">>, <<"3","0">>, <<"3","3">> >>
DezenasB == << <<"1","0">>, <<"6","0">>, <<"2","7">>, <<"0","1">>, <<"4","4">>, <<"1","8">> >>
DezenasShort == << <<"4","1">>, <<"0","5">>, <<"0","4">>, <<"5","2">>, <<"3","0">> >>

Payload(n, dezenas) ==
    [numero |-> n, listaDezenas |-> Arr(dezenas),
     dezenasSorteadasOrdemSorteio |-> Undefined]

Failure == [fail |-> TRUE, body |-> Payload(0, <<>>)]
Body(b) == [fail |-> FALSE, body |-> b]

\* what GET {apiUrl}/{contestNumber} may answer while the feed's latest contest
\* is `latest`: no body, the contest asked for (two results, and one that
\* lacks a number), or the latest contest in place of the one asked for
ResponsesFor(contestNumber, latest) ==
    {Failure,
     Body(Payload(contestNumber, DezenasA)),
     Body(Payload(contestNumber, DezenasB)),
     Body(Payload(contestNumber, DezenasShort)),
     Body(Payload(latest, DezenasA))}

\* the answers to the requests of a batch
RECURSIVE ResponseSeqs(_, _)
ResponseSeqs(batch, latest) ==
    IF batch = <<>> THEN {<<>>}
    ELSE {<<r>> \o rest : r \in ResponsesFor(Head(batch), latest),
                          rest \in ResponseSeqs(Tail(batch), latest)}

(***************************************************************************)
(* LotteryDataManager: the pure parts.                                     *)
(***************************************************************************)
Null == [null |-> TRUE, concurso |-> 0, numeros |-> <<>>]
Draw(n, nums) == [null |-> FALSE, concurso |-> n, numeros |-> nums]

\* apiData.listaDezenas || apiData.dezenasSorteadasOrdemSorteio || []
\* (an array, even an empty one, is truthy)
DrawnNumbers(apiData) ==
    IF apiData.listaDezenas.def THEN apiData.listaDezenas.arr
    ELSE IF apiData.dezenasSorteadasOrdemSorteio.def
         THEN apiData.dezenasSorteadasOrdemSorteio.arr
         ELSE <<>>

InRange(r) == ~r.nan /\ r.val >= minNumber /\ r.val <= maxNumber

\* numbers.slice(0, count).map(parseInt).filter(in range)
ValidNumbers(numbers) ==
    LET parsed == [k \in 1..Len(Slice0(numbers, numbersCount)) |-> parseInt(numbers[k])]
        kept == SelectSeq(parsed, InRange)
    IN [k \in 1..Len(kept) |-> kept[k].val]

transformAPIData(apiData) ==
    LET numbers == DrawnNumbers(apiData)
        validNumbers == ValidNumbers(numbers)
    IN IF Len(numbers) < numbersCount THEN Null
       ELSE IF Len(validNumbers) # numbersCount THEN Null
       ELSE Draw(apiData.numero, SortNumbers(validNumbers))

\* the callback of batch.map in fetchContestsInBatches
FetchContest(response) ==
    IF response.fail THEN Null ELSE transformAPIData(response.body)

NotNull(d) == ~d.null

\* mergeDraws with the test of the filter inverted
mergeDrawsInverted(existingDraws, newDraws) ==
    LET existingContests == ContestNumbers(existingDraws)
        uniqueNewDraws == SelectSeq(newDraws, LAMBDA d : d.concurso \in existingContests)
    IN SortDraws(existingDraws \o uniqueNewDraws)

mergeDraws(existingDraws, newDraws) ==
    LET existingContests == ContestNumbers(existingDraws)
        uniqueNewDraws == SelectSeq(newDraws, LAMBDA d : d.concurso \notin existingContests)
    IN SortDraws(existingDraws \o uniqueNewDraws)

\* syncData: the early return "is up to date"
UpToDate(forceFullSync, existingDraws, latestContestNumber) ==
    /\ ~(forceFullSync \/ Len(existingDraws) = 0)
    /\ ~(latestContestNumber > MathMax(ContestNumbers(existingDraws)))

\* syncData: contestsToFetch
ContestsToFetch(forceFullSync, existingDraws, latestContestNumber) ==
    IF forceFullSync \/ Len(existingDraws) = 0
    THEN LET startContest == 1
         IN [k \in 1..(latestContestNumber - startContest + 1) |-> startContest + (k - 1)]
    ELSE LET lastCachedContest == MathMax(ContestNumbers(existingDraws))
         IN IF latestContestNumber > lastCachedContest
            THEN [k \in 1..(latestContestNumber - lastCachedContest) |-> lastCachedContest + k]
            ELSE <<>>

(***************************************************************************)
(* The persisted store and the documents written to it.                    *)
(***************************************************************************)
NoMeta == [lastUpdate |-> 0, totalDraws |-> 0, lotteryType |-> "", syncSource |-> ""]
Absent == [kind |-> "absent", metadata |-> NoMeta, draws |-> <<>>]
\* a file opened for writing whose content has not been written completely
Partial == [kind |-> "partial", metadata |-> NoMeta, draws |-> <<>>]
Doc(metadata, draws) == [kind |-> "doc", metadata |-> metadata, draws |-> draws]

\* a document whose metadata does not count its draws
UncountedDocument(draws, now) ==
    Doc([lastUpdate |-> now, totalDraws |-> 0, lotteryType |-> "megasena",
         syncSource |-> ""],
        SortDraws(draws))

\* the document built by saveToCache and by saveDataToFile
CacheDocument(draws, now) ==
    Doc([lastUpdate |-> now, totalDraws |-> Len(draws), lotteryType |-> "megasena",
         syncSource |-> ""],
        SortDraws(draws))

\* the same document for the lottery lotteryId (this.config.id, lotteryId)
LotteryDocument(lotteryId, draws, now) ==
    Doc([lastUpdate |-> now, totalDraws |-> Len(draws), lotteryType |-> lotteryId,
         syncSource |-> ""],
        SortDraws(draws))

\* no payload has been validated on its own yet
NotTransformed == [done |-> FALSE, manager |-> Null, script |-> Null]

(***************************************************************************)
(* State.                                                                  *)
(***************************************************************************)
\* the invocations that may run at the same time
Procs == {"p1", "p2"}

\* who runs a cycle: getLotteryData and syncWithRetry call syncData, the
\* sync-local script calls syncLottery
Callers == {"getLotteryData", "syncWithRetry", "syncLottery"}

VARIABLES
    store,                \* public/data/megasena.json
    remoteLatest,         \* numero of the latest contest on the feed
    clock,                \* the next value of new Date()
    pc,                   \* where each invocation stands
    caller,               \* who started it
    forceFullSync,        \* syncData's parameter
    existingDraws,        \* the draws loaded at the start of the cycle
    latestContestNumber,  \* latestAPIData.numero
    contestsToFetch,      \* contestsToFetch / newContests
    i,                    \* number of contests of contestsToFetch already requested
    newDraws,             \* the valid draws fetched so far
    data,                 \* the document being written
    result,               \* the draws the cycle returned
    outcome,              \* how the cycle ended
    attempt,              \* syncWithRetry's attempt
    \* history, read by the properties only
    storeAtStart,         \* the store when the cycle began
    failed,               \* the contests requested since the invoker's last gap
                          \* analysis that gave no draw
    log,                  \* the batches fetchContestsInBatches has requested and
                          \* the delays it has awaited, in order
    \* the validation of one payload on its own
    payload,              \* the payload handed to transformAPIData
    validation,           \* what the validation made of it
    \* the requests of a batch one by one
    batchPromises,        \* batchPromises of fetchContestsInBatches: one promise
                          \* for every contest of the batch
    \* one remote request on its own
    request,              \* the call of fetchWithRetry or fetchFromAPI under way
    \* the backups of the scheduled script
    backups,              \* the entries of ./backups
    backupPath,           \* backupPath of the createBackup under way or last run
    toDelete,             \* toDelete of cleanOldBackups
    deleted,              \* how many backups of toDelete its loop has removed
    call,                 \* the call of the prediction engine: function and arguments
    engineNumbers,        \* numbers of the generation function that is running
    attempts,             \* attempts (iterations) of the loop that is running
    combinations,         \* combinations of generateMultipleCombinations
    enginePc,             \* where the prediction engine is
    lotteryStores,        \* the store of every lottery, for syncAllLotteries
    results,              \* results of syncAllLotteries
    errors,               \* errors of syncAllLotteries: the lotteries that have an entry
    allPc,                \* where syncWithRetry is, and at which lottery
    allAttempt,           \* attempt of syncWithRetry
    reports,              \* the responses of the status endpoints, in order
    timers,               \* the pending timers of the scheduling process
    hour,                 \* the time, in hours since 00:00 of the first day
    schedPc               \* where the scheduling process is

vars == <<store, remoteLatest, clock, pc, caller, forceFullSync, existingDraws,
          latestContestNumber, contestsToFetch, i, newDraws, data, result, outcome,
          attempt, storeAtStart, failed, log, payload, validation, batchPromises,
          request, backups, backupPath, toDelete, deleted, call, engineNumbers, attempts,
          combinations, enginePc, lotteryStores, results, errors, allPc, allAttempt,
          reports, timers, hour, schedPc>>

\* the variables of a cycle, and those of an invocation
cycle == <<existingDraws, latestContestNumber, contestsToFetch, i, newDraws, data,
           result, outcome>>
locals == <<caller, forceFullSync, attempt, cycle>>
history == <<storeAtStart, failed>>
\* no request is under way
NoRequest == [fn |-> "", contestNumber |-> 0, i |-> 0, errors |-> <<>>, waited |-> <<>>,
              status |-> "idle"]

\* the state of the parts that are studied on their own
backupVars == <<backups, backupPath, toDelete, deleted>>
engine == <<call, engineNumbers, attempts, combinations, enginePc>>
\* syncAllLotteries over all the lotteries
allSync == <<lotteryStores, results, errors, allPc, allAttempt>>
\* scheduleDailySync and its timers
scheduler == <<timers, hour, schedPc>>
later == <<allSync, reports, scheduler>>
aside == <<batchPromises, request, backupVars, engine, later>>
\* the same but the requests of a batch, and but the single request
besideFlight == <<request, backupVars, engine, later>>
besideRequest == <<batchPromises, backupVars, engine, later>>
besideBackup == <<batchPromises, request, engine, later>>
\* the payload validated on its own and its outcome, and those parts
pure == <<payload, validation, aside>>

\* the parts studied on their own are at rest
FlightIdle == batchPromises = [p \in Procs |-> <<>>]
RequestIdle == request = NoRequest
BackupIdle == backups = {} /\ backupPath = <<>> /\ toDelete = <<>> /\ deleted = 0

\* the prediction engine has not been called
NoCall == [fn |-> "", strategy |-> "", count |-> 0,
           gameConfig |-> [minNumber |-> 0, maxNumber |-> 0, numbersPerDraw |-> 0],
           stats |-> FALSE, options |-> [include |-> {}, exclude |-> {}]]
EngineIdle ==
    /\ call = NoCall
    /\ engineNumbers = {}
    /\ attempts = 0
    /\ combinations = <<>>
    /\ enginePc = "idle"

\* LOTTERY_CONFIGS: the ids, in the order of Object.entries
Lotteries == <<"lotofacil", "megasena">>

\* syncWithRetry over all the lotteries has not been called
AllIdle ==
    /\ lotteryStores = [l \in Range(Lotteries) |-> Absent]
    /\ results = [l \in Range(Lotteries) |-> <<>>]
    /\ errors = {}
    /\ allPc = [at |-> "idle", k |-> 0]
    /\ allAttempt = 1
\* no endpoint has been called, and nothing has been scheduled
ReportsIdle == reports = <<>>
SchedulerIdle == timers = {} /\ hour = 0 /\ schedPc = "idle"
RestIdle == AllIdle /\ ReportsIdle /\ SchedulerIdle

AsideInit ==
    /\ FlightIdle
    /\ RequestIdle
    /\ BackupIdle
    /\ EngineIdle
    /\ RestIdle

Ended == {"idle", "returned", "thrown", "killed"}

Init ==
    /\ store = Absent
    /\ remoteLatest = 1
    /\ clock = 1
    /\ pc = [p \in Procs |-> "idle"]
    /\ caller = [p \in Procs |-> "getLotteryData"]
    /\ forceFullSync = [p \in Procs |-> FALSE]
    /\ existingDraws = [p \in Procs |-> <<>>]
    /\ latestContestNumber = [p \in Procs |-> 0]
    /\ contestsToFetch = [p \in Procs |-> <<>>]
    /\ i = [p \in Procs |-> 0]
    /\ newDraws = [p \in Procs |-> <<>>]
    /\ data = [p \in Procs |-> Absent]
    /\ result = [p \in Procs |-> <<>>]
    /\ outcome = [p \in Procs |-> "none"]
    /\ attempt = [p \in Procs |-> 1]
    /\ storeAtStart = [p \in Procs |-> Absent]
    /\ failed = [p \in Procs |-> {}]
    /\ log = [p \in Procs |-> <<>>]
    /\ payload = Payload(0, <<>>)
    /\ validation = NotTransformed
    /\ AsideInit

\* no cycle has run: the store, the feed and the invocations as Init has them
CyclesIdle ==
    /\ store = Absent
    /\ remoteLatest = 1
    /\ clock = 1
    /\ pc = [p \in Procs |-> "idle"]
    /\ caller = [p \in Procs |-> "getLotteryData"]
    /\ forceFullSync = [p \in Procs |-> FALSE]
    /\ existingDraws = [p \in Procs |-> <<>>]
    /\ latestContestNumber = [p \in Procs |-> 0]
    /\ contestsToFetch = [p \in Procs |-> <<>>]
    /\ i = [p \in Procs |-> 0]
    /\ newDraws = [p \in Procs |-> <<>>]
    /\ data = [p \in Procs |-> Absent]
    /\ result = [p \in Procs |-> <<>>]
    /\ outcome = [p \in Procs |-> "none"]
    /\ attempt = [p \in Procs |-> 1]
    /\ storeAtStart = [p \in Procs |-> Absent]
    /\ failed = [p \in Procs |-> {}]
    /\ log = [p \in Procs |-> <<>>]

(***************************************************************************)
(* The feed publishes a new contest.                                       *)
(***************************************************************************)
NewContest ==
    /\ remoteLatest < MaxContest
    /\ remoteLatest' = remoteLatest + 1
    /\ UNCHANGED <<store, clock, pc, locals, history>>
    /\ UNCHANGED <<log, pure>>

(***************************************************************************)
(* An invocation begins: getLotteryData(id, true) calls syncData(),        *)
(* syncWithRetry calls syncAllLotteries(forceFullSync), which calls        *)
(* syncData(forceFullSync), and the script calls syncLottery.              *)
(***************************************************************************)
\* the cycle's variables as a cycle finds them when it begins
BeginCycle(p) ==
    /\ existingDraws' = [existingDraws EXCEPT ![p] = <<>>]
    /\ latestContestNumber' = [latestContestNumber EXCEPT ![p] = 0]
    /\ contestsToFetch' = [contestsToFetch EXCEPT ![p] = <<>>]
    /\ i' = [i EXCEPT ![p] = 0]
    /\ newDraws' = [newDraws EXCEPT ![p] = <<>>]
    /\ data' = [data EXCEPT ![p] = Absent]
    /\ result' = [result EXCEPT ![p] = <<>>]
    /\ outcome' = [outcome EXCEPT ![p] = "none"]
    /\ storeAtStart' = [storeAtStart EXCEPT ![p] = store]
    /\ log' = [log EXCEPT ![p] = <<>>]
    /\ UNCHANGED failed

Start(p, who, force) ==
    /\ pc[p] \in Ended
    /\ who \in {"getLotteryData", "syncLottery"} => ~force
    /\ pc' = [pc EXCEPT ![p] = IF who = "syncLottery" THEN "readFile" ELSE "loadFromCache"]
    /\ caller' = [caller EXCEPT ![p] = who]
    /\ forceFullSync' = [forceFullSync EXCEPT ![p] = force]
    /\ attempt' = [attempt EXCEPT ![p] = 1]
    /\ BeginCycle(p)
    /\ UNCHANGED <<store, remoteLatest, clock>>
    /\ UNCHANGED pure

(***************************************************************************)
(* LotteryDataManager.syncData                                             *)
(***************************************************************************)
\* where syncData's caller goes on: syncAllLotteries hands the draws to
\* syncWithRetry, which saves every non-empty result with saveDataToFile
AfterReturn(p, draws) ==
    IF caller[p] = "syncWithRetry" /\ Len(draws) > 0 THEN "saveDataToFile" ELSE "returned"

\* syncData throws: getLotteryData passes the error on, syncAllLotteries
\* records it and puts [] in results
AfterThrow(p) ==
    IF caller[p] = "syncWithRetry" THEN "returned" ELSE "thrown"

\* { draws: [], metadata: { lastUpdate: null, totalDraws: 0 } }
EmptyCollection ==
    [draws |-> <<>>, metadata |-> [lastUpdate |-> [null |-> TRUE, time |-> 0], totalDraws |-> 0]]

\* loadFromCache: the parsed file, or the empty collection when the file does
\* not exist, cannot be read (readOk = FALSE) or does not parse
loadFromCache(readOk) ==
    IF readOk /\ store.kind = "doc"
    THEN [draws |-> store.draws,
          metadata |-> [lastUpdate |-> [null |-> FALSE, time |-> store.metadata.lastUpdate],
                        totalDraws |-> store.metadata.totalDraws]]
    ELSE EmptyCollection

\* loadFromCache: the draws of the store; an empty collection when the file
\* does not exist, cannot be read (readOk = FALSE) or does not parse
LoadedDraws(readOk) == loadFromCache(readOk).draws

\* loadFromCache without a try around readFile: a file that is not there or
\* cannot be read is an error, which syncData catches
LoadFromCacheThrows(p) ==
    /\ pc[p] = "loadFromCache"
    /\ \E readOk \in BOOLEAN :
          IF readOk /\ store.kind = "doc"
          THEN /\ existingDraws' = [existingDraws EXCEPT ![p] = store.draws]
               /\ pc' = [pc EXCEPT ![p] = "fetchLatest"]
          ELSE /\ pc' = [pc EXCEPT ![p] = "catch"]
               /\ UNCHANGED existingDraws
    /\ UNCHANGED <<store, remoteLatest, clock, caller, forceFullSync, attempt,
                   latestContestNumber, contestsToFetch, i, newDraws, data, result,
                   outcome, history>>
    /\ UNCHANGED <<log, pure>>

\* loadFromCache creating the cache file it did not find
LoadFromCacheCreates(p) ==
    /\ pc[p] = "loadFromCache"
    /\ \E readOk \in BOOLEAN :
          existingDraws' = [existingDraws EXCEPT ![p] = LoadedDraws(readOk)]
    /\ store' = IF store.kind = "absent" THEN CacheDocument(<<>>, 0) ELSE store
    /\ pc' = [pc EXCEPT ![p] = "fetchLatest"]
    /\ UNCHANGED <<remoteLatest, clock, caller, forceFullSync, attempt,
                   latestContestNumber, contestsToFetch, i, newDraws, data, result,
                   outcome, history>>
    /\ UNCHANGED <<log, pure>>

LoadFromCache(p) ==
    /\ pc[p] = "loadFromCache"
    /\ \E readOk \in BOOLEAN :
          existingDraws' = [existingDraws EXCEPT ![p] = LoadedDraws(readOk)]
    /\ pc' = [pc EXCEPT ![p] = "fetchLatest"]
    /\ UNCHANGED <<store, remoteLatest, clock, caller, forceFullSync, attempt,
                   latestContestNumber, contestsToFetch, i, newDraws, data, result,
                   outcome, history>>
    /\ UNCHANGED <<log, pure>>

\* fetchFromAPI() rejects: syncData's catch takes over
FetchLatestFails(p) ==
    /\ pc[p] = "fetchLatest"
    /\ pc' = [pc EXCEPT ![p] = "catch"]
    /\ UNCHANGED <<store, remoteLatest, clock, locals, history>>
    /\ UNCHANGED <<log, pure>>

\* fetchFromAPI() answers: the gap analysis, and the early return
ResolveLatest(p) ==
    /\ pc[p] = "fetchLatest"
    /\ latestContestNumber' = [latestContestNumber EXCEPT ![p] = remoteLatest]
    /\ IF UpToDate(forceFullSync[p], existingDraws[p], remoteLatest)
       THEN /\ result' = [result EXCEPT ![p] = existingDraws[p]]
            /\ outcome' = [outcome EXCEPT ![p] = "upToDate"]
            /\ pc' = [pc EXCEPT ![p] = AfterReturn(p, existingDraws[p])]
            /\ UNCHANGED contestsToFetch
       ELSE /\ contestsToFetch' = [contestsToFetch EXCEPT ![p] =
                   ContestsToFetch(forceFullSync[p], existingDraws[p], remoteLatest)]
            /\ pc' = [pc EXCEPT ![p] = "fetchBatch"]
            /\ UNCHANGED <<result, outcome>>
    /\ failed' = [failed EXCEPT ![p] = {}]
    /\ UNCHANGED <<store, remoteLatest, clock, caller, forceFullSync, attempt,
                   existingDraws, i, newDraws, data, storeAtStart>>
    /\ UNCHANGED <<log, pure>>

\* a batch that takes every contest still to fetch
BatchWhole(p) == SubSeq(contestsToFetch[p], i[p] + 1, Len(contestsToFetch[p]))

\* fetchContestsInBatches: one turn of the loop, a batch gathered by Promise.all
Batch(p) == SubSeq(contestsToFetch[p], i[p] + 1, Min(i[p] + batchSize, Len(contestsToFetch[p])))

BatchResults(responses) == [k \in 1..Len(responses) |-> FetchContest(responses[k])]

\* the contests of a batch whose callback returned null
BatchFailures(batch, responses) ==
    {batch[k] : k \in {j \in 1..Len(batch) : FetchContest(responses[j]).null}}

\* a loop that never waits
DelayNever(k, n) == FALSE

\* the delay after a batch: if (i + batchSize < contestNumbers.length)
DelayAfter(k, n) == k + batchSize < n

BatchEvent(batch) == [kind |-> "batch", contests |-> batch]
DelayEvent == [kind |-> "delay", contests |-> <<>>]

\* a batch whose Promise.all rejects with the first request that fails
FetchBatchWithAborts(p, responses) ==
    /\ pc[p] = "fetchBatch"
    /\ i[p] < Len(contestsToFetch[p])
    /\ LET validDraws == SelectSeq(BatchResults(responses), NotNull)
           failures == BatchFailures(Batch(p), responses)
       IN /\ newDraws' = [newDraws EXCEPT ![p] =
                 IF failures = {} THEN newDraws[p] \o validDraws ELSE newDraws[p]]
          /\ failed' = [failed EXCEPT ![p] = failed[p] \cup failures]
          /\ pc' = [pc EXCEPT ![p] = IF failures = {} THEN "fetchBatch" ELSE "catch"]
    /\ log' = [log EXCEPT ![p] = log[p] \o <<[kind |-> "batch", contests |-> Batch(p)]>>]
    /\ i' = [i EXCEPT ![p] = i[p] + batchSize]
    /\ UNCHANGED <<store, remoteLatest, clock, caller, forceFullSync, attempt,
                   existingDraws, latestContestNumber, contestsToFetch, data, result,
                   outcome, storeAtStart, pure>>

\* one turn of the loop, the requests of the batch answered by `responses`
FetchBatchWith(p, responses) ==
    /\ pc[p] = "fetchBatch"
    /\ i[p] < Len(contestsToFetch[p])
    /\ LET validDraws == SelectSeq(BatchResults(responses), NotNull)
       IN /\ newDraws' = [newDraws EXCEPT ![p] = newDraws[p] \o validDraws]
          /\ failed' = [failed EXCEPT ![p] = failed[p] \cup BatchFailures(Batch(p), responses)]
    /\ log' = [log EXCEPT ![p] =
           log[p] \o <<BatchEvent(Batch(p))>>
                  \o (IF DelayAfter(i[p], Len(contestsToFetch[p])) THEN <<DelayEvent>> ELSE <<>>)]
    /\ i' = [i EXCEPT ![p] = i[p] + batchSize]
    /\ UNCHANGED <<store, remoteLatest, clock, pc, caller, forceFullSync, attempt,
                   existingDraws, latestContestNumber, contestsToFetch, data, result,
                   outcome, storeAtStart>>
    /\ UNCHANGED pure

FetchBatch(p) ==
    \E responses \in ResponseSeqs(Batch(p), remoteLatest) : FetchBatchWith(p, responses)

\* the requests of a batch one by one.  batch.map starts every request of the
\* batch at once; each callback settles on its own, with a draw or with null;
\* Promise.all resumes the loop when all of them have settled.
Pending == [settled |-> FALSE, value |-> Null]
Fulfilled(draw) == [settled |-> TRUE, value |-> draw]

\* the contests whose request has not settled yet
InFlight(p) ==
    {Batch(p)[k] : k \in {j \in 1..Len(batchPromises[p]) : ~batchPromises[p][j].settled}}

\* batch.map(async contestNumber => ...): the requests of the batch start
IssueBatch(p) ==
    /\ pc[p] = "fetchBatch"
    /\ i[p] < Len(contestsToFetch[p])
    /\ batchPromises' = [batchPromises EXCEPT ![p] = [k \in 1..Len(Batch(p)) |-> Pending]]
    /\ log' = [log EXCEPT ![p] = log[p] \o <<BatchEvent(Batch(p))>>]
    /\ pc' = [pc EXCEPT ![p] = "promiseAll"]
    /\ UNCHANGED <<store, remoteLatest, clock, locals, history, payload, validation,
                   besideFlight>>

\* the request of the k-th contest of the batch is answered, or fails
SettleWith(p, k, response) ==
    /\ pc[p] = "promiseAll"
    /\ k \in 1..Len(batchPromises[p])
    /\ batchPromises[p][k] = Pending
    /\ batchPromises' = [batchPromises EXCEPT ![p][k] = Fulfilled(FetchContest(response))]
    /\ UNCHANGED <<store, remoteLatest, clock, pc, locals, history, log, payload, validation,
                   besideFlight>>

\* await Promise.all(batchPromises): the results in the order of the batch,
\* the nulls filtered out, and the delay when another batch follows
CollectBatch(p) ==
    /\ pc[p] = "promiseAll"
    /\ \A k \in 1..Len(batchPromises[p]) : batchPromises[p][k].settled
    /\ LET batchResults == [k \in 1..Len(batchPromises[p]) |-> batchPromises[p][k].value]
           validDraws == SelectSeq(batchResults, NotNull)
       IN /\ newDraws' = [newDraws EXCEPT ![p] = newDraws[p] \o validDraws]
          /\ failed' = [failed EXCEPT ![p] = failed[p] \cup
                 {Batch(p)[k] : k \in {j \in 1..Len(batchResults) : batchResults[j].null}}]
    /\ log' = [log EXCEPT ![p] =
           log[p] \o (IF DelayAfter(i[p], Len(contestsToFetch[p])) THEN <<DelayEvent>> ELSE <<>>)]
    /\ i' = [i EXCEPT ![p] = i[p] + batchSize]
    /\ batchPromises' = [batchPromises EXCEPT ![p] = <<>>]
    /\ pc' = [pc EXCEPT ![p] = "fetchBatch"]
    /\ UNCHANGED <<store, remoteLatest, clock, caller, forceFullSync, attempt,
                   existingDraws, latestContestNumber, contestsToFetch, data, result,
                   outcome, storeAtStart, payload, validation, besideFlight>>

\* the loop is over: mergeDraws, then saveToCache builds its document
MergeAndBuild(p) ==
    /\ pc[p] = "fetchBatch"
    /\ ~(i[p] < Len(contestsToFetch[p]))
    /\ clock <= MaxClock
    /\ data' = [data EXCEPT ![p] =
           CacheDocument(mergeDraws(existingDraws[p], newDraws[p]), clock)]
    /\ clock' = clock + 1
    /\ pc' = [pc EXCEPT ![p] = "saveToCache"]
    /\ UNCHANGED <<store, remoteLatest, caller, forceFullSync, attempt, existingDraws,
                   latestContestNumber, contestsToFetch, i, newDraws, result, outcome,
                   history>>
    /\ UNCHANGED <<log, pure>>

\* saveToCache: mkdir or the opening of the file fails, nothing is written
SaveToCacheFails(p) ==
    /\ pc[p] = "saveToCache"
    /\ pc' = [pc EXCEPT ![p] = "catch"]
    /\ UNCHANGED <<store, remoteLatest, clock, locals, history>>
    /\ UNCHANGED <<log, pure>>

\* saveToCache: fs.writeFile opens the file, which truncates it
SaveToCacheOpens(p) ==
    /\ pc[p] = "saveToCache"
    /\ store' = Partial
    /\ pc' = [pc EXCEPT ![p] = "saveToCacheWriting"]
    /\ UNCHANGED <<remoteLatest, clock, locals, history>>
    /\ UNCHANGED <<log, pure>>

\* saveToCache: fs.writeFile rejects after it has begun to write
SaveToCacheWriteFails(p) ==
    /\ pc[p] = "saveToCacheWriting"
    /\ pc' = [pc EXCEPT ![p] = "catch"]
    /\ UNCHANGED <<store, remoteLatest, clock, locals, history>>
    /\ UNCHANGED <<log, pure>>

\* saveToCache: fs.writeFile completes, syncData returns allDraws
SaveToCacheDone(p) ==
    /\ pc[p] = "saveToCacheWriting"
    /\ store' = data[p]
    /\ result' = [result EXCEPT ![p] = data[p].draws]
    /\ outcome' = [outcome EXCEPT ![p] = "synced"]
    /\ pc' = [pc EXCEPT ![p] = AfterReturn(p, data[p].draws)]
    /\ UNCHANGED <<remoteLatest, clock, caller, forceFullSync, attempt, existingDraws,
                   latestContestNumber, contestsToFetch, i, newDraws, data, history>>
    /\ UNCHANGED <<log, pure>>

\* a catch that writes the collection it has loaded again back to the cache
CatchRewrites(p) ==
    /\ pc[p] = "catch"
    /\ \E readOk \in BOOLEAN :
          LET cachedDraws == LoadedDraws(readOk)
          IN /\ store' = CacheDocument(cachedDraws, 0)
             /\ result' = [result EXCEPT ![p] = cachedDraws]
             /\ outcome' = [outcome EXCEPT ![p] =
                    IF Len(cachedDraws) > 0 THEN "cached" ELSE "failed"]
             /\ pc' = [pc EXCEPT ![p] =
                    IF Len(cachedDraws) > 0 THEN AfterReturn(p, cachedDraws) ELSE AfterThrow(p)]
    /\ UNCHANGED <<remoteLatest, clock, caller, forceFullSync, attempt,
                   existingDraws, latestContestNumber, contestsToFetch, i, newDraws,
                   data, history, log, pure>>

\* syncData's catch: the cache is loaded again and returned when it has draws
Catch(p) ==
    /\ pc[p] = "catch"
    /\ \E readOk \in BOOLEAN :
          LET cachedDraws == LoadedDraws(readOk)
          IN IF Len(cachedDraws) > 0
             THEN /\ result' = [result EXCEPT ![p] = cachedDraws]
                  /\ outcome' = [outcome EXCEPT ![p] = "cached"]
                  /\ pc' = [pc EXCEPT ![p] = AfterReturn(p, cachedDraws)]
             ELSE /\ result' = [result EXCEPT ![p] = <<>>]
                  /\ outcome' = [outcome EXCEPT ![p] = "failed"]
                  /\ pc' = [pc EXCEPT ![p] = AfterThrow(p)]
    /\ UNCHANGED <<store, remoteLatest, clock, caller, forceFullSync, attempt,
                   existingDraws, latestContestNumber, contestsToFetch, i, newDraws,
                   data, history>>
    /\ UNCHANGED <<log, pure>>

(***************************************************************************)
(* syncWithRetry: the save of the returned draws, and the retry.           *)
(***************************************************************************)
\* saveDataToFile builds its document
SaveDataToFile(p) ==
    /\ pc[p] = "saveDataToFile"
    /\ clock <= MaxClock
    /\ data' = [data EXCEPT ![p] = CacheDocument(result[p], clock)]
    /\ clock' = clock + 1
    /\ pc' = [pc EXCEPT ![p] = "saveDataToFileOpen"]
    /\ UNCHANGED <<store, remoteLatest, caller, forceFullSync, attempt, existingDraws,
                   latestContestNumber, contestsToFetch, i, newDraws, result, outcome,
                   history>>
    /\ UNCHANGED <<log, pure>>

\* saveDataToFile: fs.writeFile opens the file, which truncates it
SaveDataToFileOpens(p) ==
    /\ pc[p] = "saveDataToFileOpen"
    /\ store' = Partial
    /\ pc' = [pc EXCEPT ![p] = "saveDataToFileWriting"]
    /\ UNCHANGED <<remoteLatest, clock, locals, history>>
    /\ UNCHANGED <<log, pure>>

\* saveDataToFile: fs.writeFile completes, syncWithRetry returns
SaveDataToFileDone(p) ==
    /\ pc[p] = "saveDataToFileWriting"
    /\ store' = data[p]
    /\ pc' = [pc EXCEPT ![p] = "returned"]
    /\ UNCHANGED <<remoteLatest, clock, locals, history>>
    /\ UNCHANGED <<log, pure>>

\* saveDataToFile throws: syncWithRetry's catch starts the next attempt, or
\* rethrows after the last one
SaveDataToFileFails(p) ==
    /\ pc[p] \in {"saveDataToFileOpen", "saveDataToFileWriting"}
    /\ IF attempt[p] < maxRetries
       THEN /\ attempt' = [attempt EXCEPT ![p] = attempt[p] + 1]
            /\ pc' = [pc EXCEPT ![p] = "loadFromCache"]
            /\ BeginCycle(p)
       ELSE /\ pc' = [pc EXCEPT ![p] = "thrown"]
            /\ UNCHANGED <<attempt, cycle, history, log>>
    /\ UNCHANGED <<store, remoteLatest, clock, caller, forceFullSync>>
    /\ UNCHANGED pure

(***************************************************************************)
(* syncLottery of the sync-local script.  The /api/sync-lottery handler    *)
(* runs the same body for each lottery and writes updatedData without      *)
(* syncSource.                                                             *)
(***************************************************************************)
\* fs.readFile and JSON.parse in a try whose catch keeps existingDraws = []
ReadFile(p) ==
    /\ pc[p] = "readFile"
    /\ \E readOk \in BOOLEAN :
          existingDraws' = [existingDraws EXCEPT ![p] = LoadedDraws(readOk)]
    /\ pc' = [pc EXCEPT ![p] = "fetchLatestAPI"]
    /\ UNCHANGED <<store, remoteLatest, clock, caller, forceFullSync, attempt,
                   latestContestNumber, contestsToFetch, i, newDraws, data, result,
                   outcome, history>>
    /\ UNCHANGED <<log, pure>>

\* fetch(config.apiUrl) rejects: the error leaves syncLottery
FetchLatestAPIFails(p) ==
    /\ pc[p] = "fetchLatestAPI"
    /\ outcome' = [outcome EXCEPT ![p] = "failed"]
    /\ pc' = [pc EXCEPT ![p] = "thrown"]
    /\ UNCHANGED <<store, remoteLatest, clock, caller, forceFullSync, attempt,
                   existingDraws, latestContestNumber, contestsToFetch, i, newDraws,
                   data, result, history>>
    /\ UNCHANGED <<log, pure>>

LastLocal(draws) == IF Len(draws) > 0 THEN MathMax(ContestNumbers(draws)) ELSE 0

\* newContests: lastLocal + 1 .. latestAPI
NewContests(lastLocal, latestAPI) ==
    [k \in 1..(latestAPI - lastLocal) |-> lastLocal + k]

FetchLatestAPI(p) ==
    /\ pc[p] = "fetchLatestAPI"
    /\ latestContestNumber' = [latestContestNumber EXCEPT ![p] = remoteLatest]
    /\ IF remoteLatest <= LastLocal(existingDraws[p])
       THEN /\ result' = [result EXCEPT ![p] = existingDraws[p]]
            /\ outcome' = [outcome EXCEPT ![p] = "upToDate"]
            /\ pc' = [pc EXCEPT ![p] = "returned"]
            /\ UNCHANGED contestsToFetch
       ELSE /\ contestsToFetch' = [contestsToFetch EXCEPT ![p] =
                   NewContests(LastLocal(existingDraws[p]), remoteLatest)]
            /\ pc' = [pc EXCEPT ![p] = "fetchContest"]
            /\ UNCHANGED <<result, outcome>>
    /\ failed' = [failed EXCEPT ![p] = {}]
    /\ UNCHANGED <<store, remoteLatest, clock, caller, forceFullSync, attempt,
                   existingDraws, i, newDraws, data, storeAtStart>>
    /\ UNCHANGED <<log, pure>>

\* the body of the loop over newContests: a draw, or nothing when the request
\* fails or the numbers are not valid
Transformed(response) ==
    IF response.fail THEN Null
    ELSE LET apiData == response.body
             numbers == DrawnNumbers(apiData)
             validNumbers == ValidNumbers(numbers)
         IN IF Len(numbers) >= numbersCount /\ Len(validNumbers) = numbersCount
            THEN Draw(apiData.numero, SortNumbers(validNumbers))
            ELSE Null

\* one turn of the loop, the request answered by `response`
FetchOneContestWith(p, response) ==
    /\ pc[p] = "fetchContest"
    /\ i[p] < Len(contestsToFetch[p])
    /\ LET transformed == Transformed(response)
       IN /\ newDraws' = [newDraws EXCEPT ![p] =
                 IF transformed.null THEN newDraws[p] ELSE Append(newDraws[p], transformed)]
          /\ failed' = [failed EXCEPT ![p] =
                 IF transformed.null THEN failed[p] \cup {contestsToFetch[p][i[p] + 1]}
                 ELSE failed[p]]
    /\ i' = [i EXCEPT ![p] = i[p] + 1]
    /\ UNCHANGED <<store, remoteLatest, clock, pc, caller, forceFullSync, attempt,
                   existingDraws, latestContestNumber, contestsToFetch, data, result,
                   outcome, storeAtStart>>
    /\ UNCHANGED <<log, pure>>

\* the contest the loop requests next
NextContest(p) ==
    IF i[p] < Len(contestsToFetch[p]) THEN contestsToFetch[p][i[p] + 1] ELSE 0

FetchOneContest(p) ==
    \E response \in ResponsesFor(NextContest(p), remoteLatest) :
        FetchOneContestWith(p, response)

\* updatedData of syncLottery ("syncLottery") and of the handler
UpdatedData(who, allDraws, now) ==
    Doc([lastUpdate |-> now, totalDraws |-> Len(allDraws), lotteryType |-> "megasena",
         syncSource |-> IF who = "syncLottery" THEN "local-script" ELSE ""],
        allDraws)

\* [...existingDraws, ...newDraws].sort(by concurso)
AllDraws(existing, new) == SortDraws(existing \o new)

\* the loop is over: the new draws are combined with the existing ones, or
\* syncLottery returns when there is none
Combine(p) ==
    /\ pc[p] = "fetchContest"
    /\ ~(i[p] < Len(contestsToFetch[p]))
    /\ IF Len(newDraws[p]) > 0
       THEN /\ clock <= MaxClock
            /\ data' = [data EXCEPT ![p] =
                   UpdatedData(caller[p], AllDraws(existingDraws[p], newDraws[p]), clock)]
            /\ clock' = clock + 1
            /\ pc' = [pc EXCEPT ![p] = "writeFile"]
            /\ UNCHANGED <<result, outcome>>
       ELSE /\ result' = [result EXCEPT ![p] = existingDraws[p]]
            /\ outcome' = [outcome EXCEPT ![p] = "noneValid"]
            /\ pc' = [pc EXCEPT ![p] = "returned"]
            /\ UNCHANGED <<data, clock>>
    /\ UNCHANGED <<store, remoteLatest, caller, forceFullSync, attempt, existingDraws,
                   latestContestNumber, contestsToFetch, i, newDraws, history>>
    /\ UNCHANGED <<log, pure>>

\* fs.writeFile opens the file, which truncates it
WriteFileOpens(p) ==
    /\ pc[p] = "writeFile"
    /\ store' = Partial
    /\ pc' = [pc EXCEPT ![p] = "writeFileWriting"]
    /\ UNCHANGED <<remoteLatest, clock, locals, history>>
    /\ UNCHANGED <<log, pure>>

\* fs.writeFile completes
WriteFileDone(p) ==
    /\ pc[p] = "writeFileWriting"
    /\ store' = data[p]
    /\ result' = [result EXCEPT ![p] = data[p].draws]
    /\ outcome' = [outcome EXCEPT ![p] = "synced"]
    /\ pc' = [pc EXCEPT ![p] = "returned"]
    /\ UNCHANGED <<remoteLatest, clock, caller, forceFullSync, attempt, existingDraws,
                   latestContestNumber, contestsToFetch, i, newDraws, data, history>>
    /\ UNCHANGED <<log, pure>>

\* fs.writeFile rejects: the error leaves syncLottery
WriteFileFails(p) ==
    /\ pc[p] \in {"writeFile", "writeFileWriting"}
    /\ outcome' = [outcome EXCEPT ![p] = "failed"]
    /\ pc' = [pc EXCEPT ![p] = "thrown"]
    /\ UNCHANGED <<store, remoteLatest, clock, caller, forceFullSync, attempt,
                   existingDraws, latestContestNumber, contestsToFetch, i, newDraws,
                   data, result, history>>
    /\ UNCHANGED <<log, pure>>

(***************************************************************************)
(* What a finished cycle reports to its caller.                            *)
(***************************************************************************)
\* the object syncLottery returns, or the one main records when it throws
ScriptReport(p) ==
    IF pc[p] = "thrown" THEN [success |-> FALSE, error |-> "error.message"]
    ELSE IF outcome[p] = "upToDate"
         THEN [success |-> TRUE, totalDraws |-> Len(existingDraws[p]), newDraws |-> 0,
               message |-> "Ja esta atualizado"]
    ELSE IF outcome[p] = "noneValid"
         THEN [success |-> TRUE, totalDraws |-> Len(existingDraws[p]), newDraws |-> 0,
               message |-> "Nenhum novo concurso valido encontrado"]
    ELSE [success |-> TRUE, totalDraws |-> Len(data[p].draws), newDraws |-> Len(newDraws[p]),
          lastContest |-> MathMax(ContestNumbers(data[p].draws))]

\* { results, errors } of syncAllLotteries, which syncWithRetry returns
SyncAllReport(p) ==
    [results |-> result[p],
     errors |-> IF outcome[p] = "failed" THEN {"error.message"} ELSE {}]

\* getLotteryData returns the draws and nothing else
Report(p) ==
    IF caller[p] = "syncLottery" THEN ScriptReport(p)
    ELSE IF caller[p] = "syncWithRetry" THEN SyncAllReport(p)
    ELSE [draws |-> result[p]]

(***************************************************************************)
(* main of the scheduled script: BackupManager.createBackup, then          *)
(* syncWithRetry.  An entry of ./backups is a directory: its name, the     *)
(* time it was made at (read by the properties only) and the copy of the   *)
(* store it holds.  Time is counted in days of the year 2025.              *)
(***************************************************************************)
MonthLengths == <<31, 28, 31, 30, 31, 30, 31, 31, 30, 31, 30, 31>>

\* the month and the day of the month of the t-th day of 2025
RECURSIVE MonthDay(_, _)
MonthDay(t, month) ==
    IF month < 12 /\ t > MonthLengths[month] THEN MonthDay(t - MonthLengths[month], month + 1)
    ELSE [year |-> 2025, month |-> month, day |-> t]

\* the date of day t: the days up to 0 are the last ones of December 2024
DateOf(t) == IF t <= 0 THEN [year |-> 2024, month |-> 12, day |-> 31 + t] ELSE MonthDay(t, 1)

\* String(n).padStart(2, '0') and String(n).padStart(4, '0')
TwoDigits(n) == <<Digits[(n \div 10) + 1], Digits[(n % 10) + 1]>>
FourDigits(n) == TwoDigits(n \div 100) \o TwoDigits(n % 100)

\* new Date().toISOString().replace(/[:.]/g, '-') at six o'clock of day t
IsoString(t) ==
    FourDigits(DateOf(t).year) \o <<"-">> \o TwoDigits(DateOf(t).month) \o <<"-">>
        \o TwoDigits(DateOf(t).day)
        \o <<"T", "0", "6", "-", "0", "0", "-", "0", "0", "-", "0", "0", "0", "Z">>

\* the UTF-16 code units of the characters that occur in the names
CharCode(c) ==
    CASE c = "-" -> 45
      [] IsDigit(c) -> 48 + DigitVal(c)
      [] c = "T" -> 84
      [] c = "Z" -> 90
      [] OTHER -> 108

\* a < b as Array.prototype.sort() compares strings
RECURSIVE StringLess(_, _)
StringLess(a, b) ==
    IF a = <<>> THEN b # <<>>
    ELSE IF b = <<>> THEN FALSE
    ELSE IF Head(a) = Head(b) THEN StringLess(Tail(a), Tail(b))
    ELSE CharCode(Head(a)) < CharCode(Head(b))

\* names.sort() of a set of names, the reverse() forgotten
RECURSIVE SortAscending(_)
SortAscending(names) ==
    IF names = {} THEN <<>>
    ELSE LET least == CHOOSE n \in names : \A m \in names : m = n \/ StringLess(n, m)
         IN <<least>> \o SortAscending(names \ {least})

\* names.sort().reverse() of a set of names
RECURSIVE SortReverse(_)
SortReverse(names) ==
    IF names = {} THEN <<>>
    ELSE LET greatest == CHOOSE n \in names : \A m \in names : m = n \/ StringLess(m, n)
         IN <<greatest>> \o SortReverse(names \ {greatest})

\* name.match(/^\d{4}-\d{2}-\d{2}T/)
MatchesDate(name) ==
    /\ Len(name) >= 11
    /\ \A k \in {1, 2, 3, 4, 6, 7, 9, 10} : IsDigit(name[k])
    /\ name[5] = "-" /\ name[8] = "-" /\ name[11] = "T"

BackupDir(name, time, files) == [name |-> name, time |-> time, files |-> files]

\* the script starts: main reads its arguments
Main(p, force) ==
    /\ pc[p] \in Ended \cup {"exited"}
    /\ Cardinality({b \in backups : b.time >= 1}) < MaxScriptBackups
    /\ pc' = [pc EXCEPT ![p] = "createBackup"]
    /\ caller' = [caller EXCEPT ![p] = "syncWithRetry"]
    /\ forceFullSync' = [forceFullSync EXCEPT ![p] = force]
    /\ attempt' = [attempt EXCEPT ![p] = 1]
    /\ BeginCycle(p)
    /\ backupPath' = <<>>
    /\ UNCHANGED <<store, remoteLatest, clock, backups, toDelete, deleted>>
    /\ UNCHANGED <<payload, validation, besideBackup>>

\* createBackup: fs.mkdir(backupPath, { recursive: true }); the day is the one
\* of the clock, which goes on with every save
MkdirBackup(p) ==
    /\ pc[p] = "createBackup"
    /\ backupPath' = IsoString(clock)
    /\ backups' = IF \E b \in backups : b.name = IsoString(clock) THEN backups
                  ELSE backups \cup {BackupDir(IsoString(clock), clock, Absent)}
    /\ pc' = [pc EXCEPT ![p] = "copyFiles"]
    /\ UNCHANGED <<store, remoteLatest, clock, locals, history, log, toDelete, deleted>>
    /\ UNCHANGED <<payload, validation, besideBackup>>

\* createBackup: the .json files of ./public/data are copied
CopyFiles(p) ==
    /\ pc[p] = "copyFiles"
    /\ backups' = IF store.kind = "absent" THEN backups
                  ELSE {IF b.name = backupPath THEN [b EXCEPT !.files = store] ELSE b :
                           b \in backups}
    /\ pc' = [pc EXCEPT ![p] = "cleanOldBackups"]
    /\ UNCHANGED <<store, remoteLatest, clock, locals, history, log, backupPath, toDelete,
                   deleted>>
    /\ UNCHANGED <<payload, validation, besideBackup>>

\* createBackup throws (mkdir, readdir of a ./public/data that does not exist
\* yet, copyFile): main's catch logs the error and calls process.exit(1)
CreateBackupFails(p) ==
    /\ pc[p] \in {"createBackup", "copyFiles"}
    /\ outcome' = [outcome EXCEPT ![p] = "backupFailed"]
    /\ pc' = [pc EXCEPT ![p] = "exited"]
    /\ UNCHANGED <<store, remoteLatest, clock, caller, forceFullSync, attempt,
                   existingDraws, latestContestNumber, contestsToFetch, i, newDraws,
                   data, result, history, log, backupVars>>
    /\ UNCHANGED <<payload, validation, besideBackup>>

\* cleanOldBackups: readdir, filter, sort, reverse, slice(keepBackups)
SortedBackups == SortReverse({b.name : b \in {c \in backups : MatchesDate(c.name)}})

CleanOldBackups(p) ==
    /\ pc[p] = "cleanOldBackups"
    /\ toDelete' = SubSeq(SortedBackups, keepBackups + 1, Len(SortedBackups))
    /\ deleted' = 0
    /\ pc' = [pc EXCEPT ![p] = "removing"]
    /\ UNCHANGED <<store, remoteLatest, clock, locals, history, log, backups, backupPath>>
    /\ UNCHANGED <<payload, validation, besideBackup>>

\* cleanOldBackups: fs.rm of the next backup of toDelete
RemoveBackup(p) ==
    /\ pc[p] = "removing"
    /\ deleted < Len(toDelete)
    /\ backups' = {b \in backups : b.name # toDelete[deleted + 1]}
    /\ deleted' = deleted + 1
    /\ UNCHANGED <<store, remoteLatest, clock, pc, locals, history, log, backupPath, toDelete>>
    /\ UNCHANGED <<payload, validation, besideBackup>>

\* createBackup returns, and main calls syncWithRetry
SyncWithRetryBegins(p) ==
    /\ pc' = [pc EXCEPT ![p] = "loadFromCache"]
    /\ UNCHANGED <<store, remoteLatest, clock, locals, history, log, backups, backupPath,
                   toDelete, deleted>>
    /\ UNCHANGED <<payload, validation, besideBackup>>

\* cleanOldBackups: readdir or fs.rm throws, the catch logs a warning
CleanFails(p) ==
    /\ \/ pc[p] = "cleanOldBackups"
       \/ pc[p] = "removing" /\ deleted < Len(toDelete)
    /\ SyncWithRetryBegins(p)

\* cleanOldBackups: the loop is over
CleanDone(p) ==
    /\ pc[p] = "removing"
    /\ deleted = Len(toDelete)
    /\ SyncWithRetryBegins(p)

(***************************************************************************)
(* The host process is terminated.                                         *)
(***************************************************************************)
\* loading, resolving the remote latest, fetching and merging
BeforeSave == {"loadFromCache", "fetchLatest", "fetchBatch",
               "readFile", "fetchLatestAPI", "fetchContest"}

Kill(p) ==
    /\ pc[p] \notin Ended
    /\ pc' = [pc EXCEPT ![p] = "killed"]
    /\ outcome' = [outcome EXCEPT ![p] =
           IF pc[p] \in BeforeSave THEN "killedBeforeSave" ELSE "killed"]
    /\ existingDraws' = [existingDraws EXCEPT ![p] = <<>>]
    /\ latestContestNumber' = [latestContestNumber EXCEPT ![p] = 0]
    /\ contestsToFetch' = [contestsToFetch EXCEPT ![p] = <<>>]
    /\ i' = [i EXCEPT ![p] = 0]
    /\ newDraws' = [newDraws EXCEPT ![p] = <<>>]
    /\ data' = [data EXCEPT ![p] = Absent]
    /\ result' = [result EXCEPT ![p] = <<>>]
    /\ log' = [log EXCEPT ![p] = <<>>]
    /\ UNCHANGED <<store, remoteLatest, clock, caller, forceFullSync, attempt, history>>
    /\ UNCHANGED pure

(***************************************************************************)
(* Specifications.                                                         *)
(***************************************************************************)
SyncDataStep(p) ==
    \/ LoadFromCache(p)
    \/ FetchLatestFails(p)
    \/ ResolveLatest(p)
    \/ FetchBatch(p)
    \/ MergeAndBuild(p)
    \/ SaveToCacheFails(p)
    \/ SaveToCacheOpens(p)
    \/ SaveToCacheWriteFails(p)
    \/ SaveToCacheDone(p)
    \/ Catch(p)

Step(p) ==
    \/ \E who \in Callers, force \in BOOLEAN : Start(p, who, force)
    \/ SyncDataStep(p)
    \/ SaveDataToFile(p)
    \/ SaveDataToFileOpens(p)
    \/ SaveDataToFileDone(p)
    \/ SaveDataToFileFails(p)
    \/ ReadFile(p)
    \/ FetchLatestAPIFails(p)
    \/ FetchLatestAPI(p)
    \/ FetchOneContest(p)
    \/ Combine(p)
    \/ WriteFileOpens(p)
    \/ WriteFileDone(p)
    \/ WriteFileFails(p)
    \/ Kill(p)

\* one invoker: the cycles follow one another
Next == Step("p1") \/ NewContest

Spec == Init /\ [][Next]_vars

\* two invokers of getLotteryData on the same store, the feed standing still
NextConcurrent ==
    \E p \in Procs : Start(p, "getLotteryData", FALSE) \/ SyncDataStep(p)

SpecConcurrent == Init /\ [][NextConcurrent]_vars

\* the scheduled script beside the other invokers: main makes its backup and
\* calls syncWithRetry
CreateBackupStep(p) ==
    \/ MkdirBackup(p)
    \/ CopyFiles(p)
    \/ CreateBackupFails(p)
    \/ CleanOldBackups(p)
    \/ RemoveBackup(p)
    \/ CleanFails(p)
    \/ CleanDone(p)

ScriptNext ==
    \/ \E force \in BOOLEAN : Main("p1", force)
    \/ CreateBackupStep("p1")
    \/ \E who \in {"getLotteryData", "syncLottery"} : Start("p1", who, FALSE)
    \/ SyncDataStep("p1")
    \/ SaveDataToFile("p1")
    \/ SaveDataToFileOpens("p1")
    \/ SaveDataToFileDone("p1")
    \/ SaveDataToFileFails("p1")
    \/ ReadFile("p1")
    \/ FetchLatestAPIFails("p1")
    \/ FetchLatestAPI("p1")
    \/ FetchOneContest("p1")
    \/ Combine("p1")
    \/ WriteFileOpens("p1")
    \/ WriteFileDone("p1")
    \/ WriteFileFails("p1")
    \/ NewContest

\* the snapshots of keepBackups days of December 2024
OldBackups == {BackupDir(IsoString(t), t, Absent) : t \in (-keepBackups)..(-1)}

\* nothing has run yet; ./backups is empty or holds the snapshots of earlier runs
ScriptInit ==
    /\ CyclesIdle
    /\ payload = Payload(0, <<>>)
    /\ validation = NotTransformed
    /\ FlightIdle
    /\ RequestIdle
    /\ EngineIdle
    /\ RestIdle
    /\ backups \in {{}, OldBackups}
    /\ backupPath = <<>>
    /\ toDelete = <<>>
    /\ deleted = 0

SpecScript == ScriptInit /\ [][ScriptNext]_vars

(***************************************************************************)
(* The gap analysis alone: a cycle that has loaded its cache, for every    *)
(* cache over the contests 1..GapContests and a range of remote latest     *)
(* contests.                                                               *)
(***************************************************************************)
RECURSIVE DrawsOf(_)
DrawsOf(S) ==
    IF S = {} THEN <<>>
    ELSE LET n == MathMax(S)
         IN Append(DrawsOf(S \ {n}), transformAPIData(Payload(n, DezenasA)))

GapInit ==
    /\ \E S \in SUBSET (1..GapContests) :
          /\ store = IF S = {} THEN Absent ELSE CacheDocument(DrawsOf(S), 0)
          /\ existingDraws = [p \in Procs |-> IF p = "p1" THEN DrawsOf(S) ELSE <<>>]
          \* the feed never lags behind the contests it has already served
          /\ remoteLatest \in (MathMax(S \cup {1})..(GapContests + 1)) \cup {GapLatest}
    /\ clock = 1
    /\ \E who \in {"getLotteryData", "syncLottery"} :
          /\ caller = [p \in Procs |-> IF p = "p1" THEN who ELSE "getLotteryData"]
          /\ pc = [p \in Procs |-> IF p # "p1" THEN "idle"
                                   ELSE IF who = "syncLottery" THEN "fetchLatestAPI"
                                   ELSE "fetchLatest"]
    /\ forceFullSync = [p \in Procs |-> FALSE]
    /\ latestContestNumber = [p \in Procs |-> 0]
    /\ contestsToFetch = [p \in Procs |-> <<>>]
    /\ i = [p \in Procs |-> 0]
    /\ newDraws = [p \in Procs |-> <<>>]
    /\ data = [p \in Procs |-> Absent]
    /\ result = [p \in Procs |-> <<>>]
    /\ outcome = [p \in Procs |-> "none"]
    /\ attempt = [p \in Procs |-> 1]
    /\ storeAtStart = [p \in Procs |-> store]
    /\ failed = [p \in Procs |-> {}]
    /\ log = [p \in Procs |-> <<>>]
    /\ payload = Payload(0, <<>>)
    /\ validation = NotTransformed
    /\ AsideInit

GapNext == ResolveLatest("p1") \/ FetchLatestAPI("p1")

SpecGap == GapInit /\ [][GapNext]_vars

(***************************************************************************)
(* createBackup alone: one call of it, for every ./backups that holds some *)
(* of the backups of MaxOldBackups earlier days and perhaps a directory    *)
(* that is no backup.                                                      *)
(***************************************************************************)
\* days on which the script has run: across the turn of the year, of a month
\* and of the tenth day of a month
BackupDays == <<-22, -1, 1, 9, 10, 31, 32, 273, 274, 304, 305, 365>>

\* an entry of ./backups that createBackup did not make
OtherDir == BackupDir(<<"l", "o", "g", "s">>, 0, Absent)

\* a store with one contest
SavedStore == CacheDocument(DrawsOf({1}), 0)

RetentionInit ==
    /\ \E K \in SUBSET (1..MaxOldBackups), others \in SUBSET {OtherDir} :
          /\ backups = {BackupDir(IsoString(BackupDays[k]), BackupDays[k], SavedStore) : k \in K}
                           \cup others
          /\ \E now \in (MathMax(K \cup {0}) + 1)..(MaxOldBackups + 1) : clock = BackupDays[now]
    /\ store \in {Absent, SavedStore}
    /\ backupPath = <<>>
    /\ toDelete = <<>>
    /\ deleted = 0
    /\ pc = [p \in Procs |-> IF p = "p1" THEN "createBackup" ELSE "idle"]
    /\ caller = [p \in Procs |-> IF p = "p1" THEN "syncWithRetry" ELSE "getLotteryData"]
    /\ storeAtStart = [p \in Procs |-> store]
    /\ remoteLatest = 1
    /\ forceFullSync = [p \in Procs |-> FALSE]
    /\ existingDraws = [p \in Procs |-> <<>>]
    /\ latestContestNumber = [p \in Procs |-> 0]
    /\ contestsToFetch = [p \in Procs |-> <<>>]
    /\ i = [p \in Procs |-> 0]
    /\ newDraws = [p \in Procs |-> <<>>]
    /\ data = [p \in Procs |-> Absent]
    /\ result = [p \in Procs |-> <<>>]
    /\ outcome = [p \in Procs |-> "none"]
    /\ attempt = [p \in Procs |-> 1]
    /\ failed = [p \in Procs |-> {}]
    /\ log = [p \in Procs |-> <<>>]
    /\ payload = Payload(0, <<>>)
    /\ validation = NotTransformed
    /\ FlightIdle
    /\ RequestIdle
    /\ EngineIdle
    /\ RestIdle

RetentionNext == CreateBackupStep("p1")

SpecRetention == RetentionInit /\ [][RetentionNext]_vars

(***************************************************************************)
(* The fetch loops alone: a cycle that has decided what to fetch, for every *)
(* cache over the contests 1..MaxCached and up to MaxBatchList contests to  *)
(* fetch, the feed answering every request but MaxFailures of them, until   *)
(* the cycle has saved.                                                     *)
(***************************************************************************)
\* the feed answers the request for a contest with that contest
Answered(contestNumber) == Body(Payload(contestNumber, DezenasA))

\* the answers to the requests of a batch of which at most f fail
RECURSIVE AnswersUpTo(_, _)
AnswersUpTo(batch, f) ==
    IF batch = <<>> THEN {<<>>}
    ELSE {<<Answered(Head(batch))>> \o rest : rest \in AnswersUpTo(Tail(batch), f)}
         \cup (IF f > 0
               THEN {<<Failure>> \o rest : rest \in AnswersUpTo(Tail(batch), f - 1)}
               ELSE {})

\* the failures the feed may still produce in p's cycle
FailuresLeft(p) == Max(0, MaxFailures - Cardinality(failed[p]))

LoopFetchBatch(p) ==
    \E responses \in AnswersUpTo(Batch(p), FailuresLeft(p)) : FetchBatchWith(p, responses)

LoopFetchOneContest(p) ==
    \E responses \in AnswersUpTo(<<NextContest(p)>>, FailuresLeft(p)) :
        FetchOneContestWith(p, responses[1])

LoopInit ==
    /\ \E S \in SUBSET (1..MaxCached), who \in {"getLotteryData", "syncLottery"} :
          LET cached == DrawsOf(S)
              highest == MathMax(S \cup {0})
          IN /\ store = IF S = {} THEN Absent ELSE CacheDocument(cached, 0)
             /\ existingDraws = [p \in Procs |-> IF p = "p1" THEN cached ELSE <<>>]
             /\ remoteLatest \in (highest + 1)..(highest + MaxBatchList)
             /\ caller = [p \in Procs |-> IF p = "p1" THEN who ELSE "getLotteryData"]
             /\ pc = [p \in Procs |-> IF p # "p1" THEN "idle"
                                      ELSE IF who = "syncLottery" THEN "fetchContest"
                                      ELSE "fetchBatch"]
             /\ contestsToFetch = [p \in Procs |->
                    IF p # "p1" THEN <<>>
                    ELSE IF who = "syncLottery"
                         THEN NewContests(LastLocal(cached), remoteLatest)
                         ELSE ContestsToFetch(FALSE, cached, remoteLatest)]
             /\ latestContestNumber = [p \in Procs |-> IF p = "p1" THEN remoteLatest ELSE 0]
    /\ clock = 1
    /\ forceFullSync = [p \in Procs |-> FALSE]
    /\ i = [p \in Procs |-> 0]
    /\ newDraws = [p \in Procs |-> <<>>]
    /\ data = [p \in Procs |-> Absent]
    /\ result = [p \in Procs |-> <<>>]
    /\ outcome = [p \in Procs |-> "none"]
    /\ attempt = [p \in Procs |-> 1]
    /\ storeAtStart = [p \in Procs |-> store]
    /\ failed = [p \in Procs |-> {}]
    /\ log = [p \in Procs |-> <<>>]
    /\ payload = Payload(0, <<>>)
    /\ validation = NotTransformed
    /\ AsideInit

LoopNext ==
    \/ LoopFetchBatch("p1")
    \/ MergeAndBuild("p1")
    \/ SaveToCacheFails("p1")
    \/ SaveToCacheOpens("p1")
    \/ SaveToCacheWriteFails("p1")
    \/ SaveToCacheDone("p1")
    \/ Catch("p1")
    \/ LoopFetchOneContest("p1")
    \/ Combine("p1")
    \/ WriteFileOpens("p1")
    \/ WriteFileDone("p1")
    \/ WriteFileFails("p1")

SpecLoop == LoopInit /\ [][LoopNext]_vars

(***************************************************************************)
(* The requests of syncData's fetch loop one by one: the same cycles as    *)
(* above, every request of a batch settling on its own.                    *)
(***************************************************************************)
\* the failures the feed may still produce in p's cycle, those of the batch
\* under way counted
FlightFailuresLeft(p) ==
    Max(0, MaxFailures - Cardinality(failed[p])
               - Cardinality({k \in 1..Len(batchPromises[p]) :
                                 batchPromises[p][k].settled /\ batchPromises[p][k].value.null}))

Settle(p) ==
    \E k \in 1..Len(batchPromises[p]) :
        \E responses \in AnswersUpTo(<<Batch(p)[k]>>, FlightFailuresLeft(p)) :
            SettleWith(p, k, responses[1])

FlightInit ==
    /\ LoopInit
    /\ caller["p1"] = "getLotteryData"
    /\ Len(contestsToFetch["p1"]) <= MaxFlightList

FlightNext ==
    \/ IssueBatch("p1")
    \/ Settle("p1")
    \/ CollectBatch("p1")
    \/ MergeAndBuild("p1")
    \/ SaveToCacheFails("p1")
    \/ SaveToCacheOpens("p1")
    \/ SaveToCacheWriteFails("p1")
    \/ SaveToCacheDone("p1")
    \/ Catch("p1")

SpecFlight == FlightInit /\ [][FlightNext]_vars

(***************************************************************************)
(* The same, with a feed that may leave a request without any response:    *)
(* fetch(url, { method, headers, mode }) is given no signal and no         *)
(* timeout, so that its promise stays pending.                             *)
(***************************************************************************)
\* a request that will get no response
Hung == [settled |-> FALSE, value |-> Null, hung |-> TRUE]

\* the feed drops the request of the k-th contest of the batch
Hang(p) ==
    /\ pc[p] = "promiseAll"
    /\ \E k \in 1..Len(batchPromises[p]) :
          /\ batchPromises[p][k] = Pending
          /\ batchPromises' = [batchPromises EXCEPT ![p][k] = Hung]
    /\ UNCHANGED <<store, remoteLatest, clock, pc, locals, history, log, payload, validation,
                   besideFlight>>

HangNext == FlightNext \/ Hang("p1")

SpecHang == FlightInit /\ [][HangNext]_vars

(***************************************************************************)
(* One remote request alone: fetchWithRetry of caixaApiService, which      *)
(* fetchSingleContest calls for the latest contest and for a given one,    *)
(* and fetchFromAPI of LotteryDataManager, which syncData calls for both.  *)
(***************************************************************************)
\* how an attempt may end: fetch rejects, the status is not ok, the body is
\* no object, or the body is a payload
AttemptOutcomes == {"network", "http", "format", "ok"}

\* fetchWithRetry: one turn of for (let i = 0; i < retries; i++)
FetchWithRetry(ended) ==
    /\ request.fn = "fetchWithRetry"
    /\ request.status = "running"
    /\ request.i < retries
    /\ request' =
           IF ended = "ok" THEN [request EXCEPT !.status = "resolved"]
           ELSE IF request.i = retries - 1
                THEN [request EXCEPT !.errors = Append(@, ended), !.status = "rejected"]
                ELSE [request EXCEPT !.errors = Append(@, ended),
                                     !.waited = Append(@, (2 ^ request.i) * 1000),
                                     !.i = @ + 1]
    /\ UNCHANGED <<store, remoteLatest, clock, pc, locals, history, log, payload,
                   validation, besideRequest>>

\* fetchFromAPI: one fetch; a body that is no object is returned as it is
FetchFromAPI(ended) ==
    /\ request.fn = "fetchFromAPI"
    /\ request.status = "running"
    /\ request' =
           IF ended \in {"network", "http"}
           THEN [request EXCEPT !.errors = Append(@, ended), !.status = "rejected"]
           ELSE [request EXCEPT !.status = "resolved"]
    /\ UNCHANGED <<store, remoteLatest, clock, pc, locals, history, log, payload,
                   validation, besideRequest>>

\* a request for the latest contest (contestNumber = 0, the parameter's null)
\* or for a given one
RequestInit ==
    /\ request \in {[NoRequest EXCEPT !.fn = f, !.contestNumber = n, !.status = "running"] :
                        f \in {"fetchWithRetry", "fetchFromAPI"}, n \in 0..MaxContest}
    /\ FlightIdle
    /\ BackupIdle
    /\ EngineIdle
    /\ RestIdle
    /\ payload = Payload(0, <<>>)
    /\ validation = NotTransformed
    /\ CyclesIdle

RequestNext ==
    \E o \in AttemptOutcomes : FetchWithRetry(o) \/ FetchFromAPI(o)

SpecRequest == RequestInit /\ [][RequestNext]_vars

(***************************************************************************)
(* The validation alone: transformAPIData, and the same steps as the       *)
(* sync-local script repeats them, applied to every payload whose list has  *)
(* numbersCount - 1 .. numbersCount + MaxExtra entries drawn from a few     *)
(* strings, in either field.                                                *)
(***************************************************************************)
\* entries of a payload's list: two numbers in range, one above maxNumber and
\* one that parseInt does not read
DezenaStrings == { <<"0","5">>, <<"6","0">>, <<"6","1">>, <<"x","7">> }

\* a list of n entries
Lists(n) == [1..n -> DezenaStrings]

\* what the field listaDezenas may be beside a list in the other field:
\* missing, an empty array, or a result of its own
FirstFields == {Undefined, Arr(<<>>), Arr(DezenasB)}

\* the payloads with a list of n entries in one of the two fields, and those
\* with a valid result in dezenasSorteadasOrdemSorteio
Payloads(n) ==
    {[numero |-> 1, listaDezenas |-> Arr(l), dezenasSorteadasOrdemSorteio |-> Undefined] :
        l \in Lists(n)}
    \cup {[numero |-> 1, listaDezenas |-> Undefined, dezenasSorteadasOrdemSorteio |-> Arr(l)] :
        l \in Lists(n)}
    \cup {[numero |-> 1, listaDezenas |-> f, dezenasSorteadasOrdemSorteio |-> Arr(DezenasA)] :
        f \in FirstFields}

ValidateInit ==
    /\ \E n \in (numbersCount - 1)..(numbersCount + MaxExtra) : payload \in Payloads(n)
    /\ validation = NotTransformed
    /\ AsideInit
    /\ store = Absent
    /\ remoteLatest = 1
    /\ clock = 1
    /\ pc = [p \in Procs |-> "idle"]
    /\ caller = [p \in Procs |-> "getLotteryData"]
    /\ forceFullSync = [p \in Procs |-> FALSE]
    /\ existingDraws = [p \in Procs |-> <<>>]
    /\ latestContestNumber = [p \in Procs |-> 0]
    /\ contestsToFetch = [p \in Procs |-> <<>>]
    /\ i = [p \in Procs |-> 0]
    /\ newDraws = [p \in Procs |-> <<>>]
    /\ data = [p \in Procs |-> Absent]
    /\ result = [p \in Procs |-> <<>>]
    /\ outcome = [p \in Procs |-> "none"]
    /\ attempt = [p \in Procs |-> 1]
    /\ storeAtStart = [p \in Procs |-> Absent]
    /\ failed = [p \in Procs |-> {}]
    /\ log = [p \in Procs |-> <<>>]

\* the payload goes through transformAPIData and through the script's steps
Validate ==
    /\ ~validation.done
    /\ validation' = [done |-> TRUE,
                      manager |-> transformAPIData(payload),
                      script |-> Transformed(Body(payload))]
    /\ UNCHANGED <<store, remoteLatest, clock, pc, locals, history, log, payload, aside>>

SpecValidate == ValidateInit /\ [][Validate]_vars

(***************************************************************************)
(* The number prediction engine.  A random number is any number of the     *)
(* range; an iteration that rejects its number changes nothing.            *)
(***************************************************************************)
besideEngine == <<store, remoteLatest, clock, pc, locals, history, log, payload, validation,
                  batchPromises, request, backupVars, later>>

GameNumbers(gameConfig) == gameConfig.minNumber..gameConfig.maxNumber

\* numbers.sort((a, b) => a - b)
RECURSIVE Ascending(_)
Ascending(S) ==
    IF S = {} THEN <<>>
    ELSE LET least == CHOOSE n \in S : \A m \in S : n <= m
         IN <<least>> \o Ascending(S \ {least})

RECURSIVE SumOf(_)
SumOf(S) == IF S = {} THEN 0 ELSE LET n == CHOOSE n \in S : TRUE IN n + SumOf(S \ {n})

\* the first n numbers of S, ascending
RECURSIVE FirstOf(_, _)
FirstOf(S, n) ==
    IF n <= 0 \/ S = {} THEN {}
    ELSE LET least == CHOOSE k \in S : \A m \in S : k <= m
         IN {least} \cup FirstOf(S \ {least}, n - 1)

\* maxConsecutive of generateCombinatorial: the longest run of consecutive
\* numbers, 1 when there is none
MaxConsecutive(S) ==
    MathMax({1} \cup {k \in 1..Cardinality(S) : \E a \in S : a..(a + k - 1) \subseteq S})

\* what a generation function gives: an array of numbers, or an Error
Threw == [threw |-> TRUE, numbers |-> <<>>]
Returned(S) == [threw |-> FALSE, numbers |-> Ascending(S)]

\* generatePureRandom, with generateRandomNumbers
PureRandom(gameConfig, options) ==
    LET numbersToGenerate == gameConfig.numbersPerDraw - Cardinality(options.include)
        available == GameNumbers(gameConfig) \ (options.exclude \cup options.include)
    IN IF numbersToGenerate > 0
       THEN IF Cardinality(available) < numbersToGenerate
            THEN {Threw}
            ELSE {Returned(options.include \cup R) :
                     R \in {X \in SUBSET available : Cardinality(X) = numbersToGenerate}}
       ELSE {Returned(options.include)}

\* the engine ends with what a generation function gives
EndWith(o) ==
    /\ enginePc' = IF o.threw THEN "thrown" ELSE "returned"
    /\ engineNumbers' = Range(o.numbers)

GeneratePureRandom ==
    /\ enginePc = "generatePureRandom"
    /\ \E o \in PureRandom(call.gameConfig, call.options) : EndWith(o)
    /\ UNCHANGED <<call, attempts, combinations, besideEngine>>

\* fillRemainingSafe: maxAttempts
fillMaxAttempts(min, max) == (max - min + 1) * 10

\* fillRemainingSafe(numbers, target, min, max, exclude): an iteration of the
\* while loop
FillRandom ==
    /\ enginePc = "fillRemainingSafe"
    /\ Cardinality(engineNumbers) < call.gameConfig.numbersPerDraw
    /\ attempts < fillMaxAttempts(call.gameConfig.minNumber, call.gameConfig.maxNumber)
    /\ \E randomNum \in GameNumbers(call.gameConfig) :
          engineNumbers' =
              IF randomNum \notin engineNumbers /\ randomNum \notin call.options.exclude
              THEN engineNumbers \cup {randomNum}
              ELSE engineNumbers
    /\ attempts' = attempts + 1
    /\ UNCHANGED <<call, combinations, enginePc, besideEngine>>

\* fillRemainingSafe: the while loop is over; the deterministic approach
FillDeterministic ==
    /\ enginePc = "fillRemainingSafe"
    /\ ~(/\ Cardinality(engineNumbers) < call.gameConfig.numbersPerDraw
         /\ attempts < fillMaxAttempts(call.gameConfig.minNumber, call.gameConfig.maxNumber))
    /\ engineNumbers' = engineNumbers \cup
          FirstOf((GameNumbers(call.gameConfig) \ engineNumbers) \ call.options.exclude,
                  call.gameConfig.numbersPerDraw - Cardinality(engineNumbers))
    /\ enginePc' = "returned"
    /\ UNCHANGED <<call, attempts, combinations, besideEngine>>

\* generateCombinatorial: the numbers its inner loop does not skip
CombinatorialAdmissible(gameConfig, options, S) ==
    {randomNum \in GameNumbers(gameConfig) :
        /\ randomNum \notin S
        /\ randomNum \notin options.exclude
        /\ MaxConsecutive(S \cup {randomNum}) <= 2
        /\ Cardinality(S) = gameConfig.numbersPerDraw - 1 =>
              LET sum == SumOf(S) + randomNum
                  twiceAvgSum == (gameConfig.minNumber + gameConfig.maxNumber)
                                     * gameConfig.numbersPerDraw
              IN \* minSum = avgSum * 0.75, maxSum = avgSum * 1.25
                 ~(8 * sum < 3 * twiceAvgSum \/ 8 * sum > 5 * twiceAvgSum)}

\* generateCombinatorial: an attempt begins
CombinatorialAttempt ==
    /\ enginePc = "generateCombinatorial"
    /\ attempts < maxAttempts
    /\ attempts' = attempts + 1
    /\ engineNumbers' = call.options.include
    /\ enginePc' = "constraints"
    /\ UNCHANGED <<call, combinations, besideEngine>>

\* generateCombinatorial: an iteration of the inner loop that pushes its number
CombinatorialPick ==
    /\ enginePc = "constraints"
    /\ Cardinality(engineNumbers) < call.gameConfig.numbersPerDraw
    /\ \E randomNum \in
              CombinatorialAdmissible(call.gameConfig, call.options, engineNumbers) :
          engineNumbers' = engineNumbers \cup {randomNum}
    /\ UNCHANGED <<call, attempts, combinations, enginePc, besideEngine>>

\* generateCombinatorial: the final consecutive check
CombinatorialValidate ==
    /\ enginePc = "constraints"
    /\ Cardinality(engineNumbers) >= call.gameConfig.numbersPerDraw
    /\ enginePc' = IF MaxConsecutive(engineNumbers) <= 2 THEN "returned"
                   ELSE "generateCombinatorial"
    /\ UNCHANGED <<call, engineNumbers, attempts, combinations, besideEngine>>

\* generateCombinatorial: the fallback after maxAttempts attempts
CombinatorialFallback ==
    /\ enginePc = "generateCombinatorial"
    /\ attempts >= maxAttempts
    /\ \E o \in PureRandom(call.gameConfig, call.options) : EndWith(o)
    /\ UNCHANGED <<call, attempts, combinations, besideEngine>>

\* generateGoldenRatio: positions are counted in units of 1 / GoldenUnit, so
\* that step * phi is a whole number of units
GoldenUnit(gameConfig) == 1000 * gameConfig.numbersPerDraw
GoldenRange(gameConfig) == gameConfig.maxNumber - gameConfig.minNumber + 1

\* Math.round
Round(position, unit) == (2 * position + unit) \div (2 * unit)

\* position += step * phi, and the wrap past maxNumber
GoldenAdvance(gameConfig, position) ==
    LET unit == GoldenUnit(gameConfig)
        next == position + GoldenRange(gameConfig) * phi
    IN IF next > gameConfig.maxNumber * unit
       THEN gameConfig.minNumber * unit
                + ((next - gameConfig.maxNumber * unit) % (GoldenRange(gameConfig) * unit))
       ELSE next

\* generateGoldenRatio: the candidates its first loop collects
RECURSIVE GoldenCandidates(_, _, _, _)
GoldenCandidates(gameConfig, position, candidates, iterations) ==
    IF /\ Cardinality(candidates) < Min(gameConfig.numbersPerDraw * 2, GoldenRange(gameConfig))
       /\ iterations < GoldenRange(gameConfig) * 2
    THEN LET num == Round(position, GoldenUnit(gameConfig))
         IN GoldenCandidates(gameConfig, GoldenAdvance(gameConfig, position),
                IF num >= gameConfig.minNumber /\ num <= gameConfig.maxNumber
                THEN candidates \cup {num} ELSE candidates,
                iterations + 1)
    ELSE candidates

\* minNumber + Math.random() * range, in steps of a half
GoldenStarts(gameConfig) ==
    {gameConfig.minNumber * GoldenUnit(gameConfig) + k * (GoldenUnit(gameConfig) \div 2) :
        k \in 0..(2 * GoldenRange(gameConfig) - 1)}

\* generateGoldenRatio up to its last loop: candidates, filter, shuffle, select
GoldenSelect ==
    /\ enginePc = "generateGoldenRatio"
    /\ \E position \in GoldenStarts(call.gameConfig) :
          LET candidates == GoldenCandidates(call.gameConfig, position, {}, 0)
              validCandidates == (candidates \ call.options.exclude) \ call.options.include
              needed == call.gameConfig.numbersPerDraw - Cardinality(call.options.include)
              taken == Max(0, Min(needed, Cardinality(validCandidates)))
          IN \E chosen \in {X \in SUBSET validCandidates : Cardinality(X) = taken} :
                engineNumbers' = call.options.include \cup chosen
    /\ enginePc' = "fillRandomly"
    /\ UNCHANGED <<call, attempts, combinations, besideEngine>>

\* generateGoldenRatio: an iteration of the last loop that pushes its number
GoldenFill ==
    /\ enginePc = "fillRandomly"
    /\ Cardinality(engineNumbers) < call.gameConfig.numbersPerDraw
    /\ \E randomNum \in GameNumbers(call.gameConfig) :
          /\ randomNum \notin engineNumbers /\ randomNum \notin call.options.exclude
          /\ engineNumbers' = engineNumbers \cup {randomNum}
    /\ UNCHANGED <<call, attempts, combinations, enginePc, besideEngine>>

GoldenReturn ==
    /\ enginePc = "fillRandomly"
    /\ Cardinality(engineNumbers) >= call.gameConfig.numbersPerDraw
    /\ enginePc' = "returned"
    /\ UNCHANGED <<call, engineNumbers, attempts, combinations, besideEngine>>

\* the options of a game: numbers to include, numbers to exclude
OptionsOf(gameConfig) ==
    [include : {X \in SUBSET GameNumbers(gameConfig) :
                    Cardinality(X) <= gameConfig.numbersPerDraw},
     exclude : SUBSET GameNumbers(gameConfig)]

\* one call of a generation function; fillRemainingSafe is called with the
\* included numbers
GenerateInit ==
    /\ \E fn \in {"generatePureRandom", "fillRemainingSafe", "generateCombinatorial",
                  "generateGoldenRatio"},
          max \in 4..MaxGameNumber, numbersPerDraw \in 2..3 :
          LET gameConfig == [minNumber |-> 1, maxNumber |-> max,
                             numbersPerDraw |-> numbersPerDraw]
          IN /\ \E options \in OptionsOf(gameConfig) :
                   call = [NoCall EXCEPT !.fn = fn, !.gameConfig = gameConfig, !.stats = TRUE,
                                         !.options = options]
             /\ enginePc = fn
    /\ engineNumbers = IF call.fn = "fillRemainingSafe" THEN call.options.include ELSE {}
    /\ attempts = 0
    /\ combinations = <<>>
    /\ FlightIdle
    /\ RequestIdle
    /\ BackupIdle
    /\ RestIdle
    /\ payload = Payload(0, <<>>)
    /\ validation = NotTransformed
    /\ CyclesIdle

GenerateNext ==
    \/ GeneratePureRandom
    \/ FillRandom \/ FillDeterministic
    \/ CombinatorialAttempt \/ CombinatorialPick \/ CombinatorialValidate
    \/ CombinatorialFallback
    \/ GoldenSelect \/ GoldenFill \/ GoldenReturn

SpecGenerate == GenerateInit /\ [][GenerateNext]_vars

(***************************************************************************)
(* generateMultipleCombinations, each call of generateSingleCombination    *)
(* answered by one of the combinations the strategy can give.              *)
(***************************************************************************)
\* generateCombinatorial: the sets its inner loop can end with, from S
RECURSIVE CombinatorialCompletions(_, _, _)
CombinatorialCompletions(gameConfig, options, S) ==
    IF Cardinality(S) >= gameConfig.numbersPerDraw THEN {S}
    ELSE UNION {CombinatorialCompletions(gameConfig, options, S \cup {randomNum}) :
                   randomNum \in CombinatorialAdmissible(gameConfig, options, S)}

\* generateCombinatorial: what it can give; nothing when it never returns
Combinatorial(gameConfig, options) ==
    LET completions == CombinatorialCompletions(gameConfig, options, options.include)
    IN {Returned(S) : S \in {X \in completions : MaxConsecutive(X) <= 2}}
       \cup (IF \E X \in completions : MaxConsecutive(X) > 2
             THEN PureRandom(gameConfig, options) ELSE {})

\* generateSingleCombination: what it can give
generateSingleCombination(strategy, gameConfig, stats, options) ==
    IF ~stats /\ strategy # "random" THEN {Threw}
    ELSE IF strategy = "combinatorial" THEN Combinatorial(gameConfig, options)
    ELSE PureRandom(gameConfig, options)

\* every combination counts as new
isDuplicateNever(combination, existingCombinations) == FALSE

isDuplicateCombination(combination, existingCombinations) ==
    LET sortedNew == Ascending(Range(combination))
    IN \E k \in 1..Len(existingCombinations) :
          sortedNew = Ascending(Range(existingCombinations[k].numbers))

\* generateMultipleCombinations: maxAttempts
multipleMaxAttempts(count) == count * 50

\* generateMultipleCombinations: an iteration of the loop
MultipleAttempt ==
    /\ enginePc = "generateMultipleCombinations"
    /\ Len(combinations) < call.count
    /\ attempts < multipleMaxAttempts(call.count)
    /\ attempts' = attempts + 1
    /\ \E o \in generateSingleCombination(call.strategy, call.gameConfig, call.stats,
                                          call.options) :
          combinations' =
              IF ~o.threw /\ ~isDuplicateCombination(o.numbers, combinations)
              THEN Append(combinations, [id |-> Len(combinations) + 1, numbers |-> o.numbers,
                                         strategy |-> call.strategy])
              ELSE combinations
    /\ UNCHANGED <<call, engineNumbers, enginePc, besideEngine>>

\* generateMultipleCombinations: the loop is over
MultipleReturn ==
    /\ enginePc = "generateMultipleCombinations"
    /\ ~(Len(combinations) < call.count /\ attempts < multipleMaxAttempts(call.count))
    /\ enginePc' = "returned"
    /\ UNCHANGED <<call, engineNumbers, attempts, combinations, besideEngine>>

\* a game of two numbers per draw
SmallGame == [minNumber |-> 1, maxNumber |-> MaxGameNumber - 1, numbersPerDraw |-> 2]

\* options that leave all, some, one or none of the combinations
MultipleOptions ==
    {[include |-> {}, exclude |-> {}],
     [include |-> {SmallGame.minNumber}, exclude |-> {}],
     [include |-> {}, exclude |-> (SmallGame.minNumber + 2)..SmallGame.maxNumber],
     [include |-> {}, exclude |-> (SmallGame.minNumber + 1)..SmallGame.maxNumber]}

MultipleInit ==
    /\ call \in [fn : {"generateMultipleCombinations"}, strategy : {"random", "combinatorial"},
                 count : 0..MaxCount, gameConfig : {SmallGame}, stats : BOOLEAN,
                 options : MultipleOptions]
    /\ enginePc = "generateMultipleCombinations"
    /\ engineNumbers = {}
    /\ attempts = 0
    /\ combinations = <<>>
    /\ FlightIdle
    /\ RequestIdle
    /\ BackupIdle
    /\ RestIdle
    /\ payload = Payload(0, <<>>)
    /\ validation = NotTransformed
    /\ CyclesIdle

MultipleNext == MultipleAttempt \/ MultipleReturn

SpecMultiple == MultipleInit /\ [][MultipleNext]_vars

(***************************************************************************)
(* syncWithRetry over all the lotteries: syncAllLotteries calls syncData   *)
(* of each lottery in turn, syncData taken as a whole; then every result   *)
(* that has draws is saved.  The payloads of both lotteries are those of   *)
(* the remote feed above.                                                  *)
(***************************************************************************)
besideAll == <<store, remoteLatest, clock, pc, locals, history, log, payload, validation,
               batchPromises, request, backupVars, engine, reports, scheduler>>

\* fetchContestsInBatches: the draws it can return
FetchedDraws(contestNumbers, latest) ==
    {SelectSeq(BatchResults(responses), NotNull) :
        responses \in ResponseSeqs(contestNumbers, latest)}

\* what syncData gives: draws and the store it leaves, or an error
Gave(draws, s) == [threw |-> FALSE, draws |-> draws, store |-> s]
ThrewWith(s) == [threw |-> TRUE, draws |-> <<>>, store |-> s]

\* what loadFromCache can read from the store s
Readable(s) == {IF s.kind = "doc" THEN s.draws ELSE <<>>, <<>>}

\* syncData's catch, the store being s
Caught(s) ==
    {IF Len(cachedDraws) > 0 THEN Gave(cachedDraws, s) ELSE ThrewWith(s) :
        cachedDraws \in Readable(s)}

\* syncData(forceFullSync) of the lottery id, whose store is s
SyncData(id, s, full, latest, now) ==
    UNION {
        \* fetchFromAPI() rejects
        Caught(s) \cup
        (IF UpToDate(full, existing, latest)
         THEN {Gave(existing, s)}
         ELSE UNION {
                LET document == LotteryDocument(id, mergeDraws(existing, new), now)
                IN \* saveToCache throws before or after the file is opened, or saves
                   Caught(s) \cup Caught(Partial) \cup {Gave(document.draws, document)} :
                new \in FetchedDraws(ContestsToFetch(full, existing, latest), latest)})
        : existing \in Readable(s)}

\* the lottery syncAllLotteries or the loop of saves is at
AtLottery == Lotteries[allPc.k]

\* syncAllLotteries: one turn of its loop
SyncLottery ==
    /\ allPc.at = "syncAllLotteries"
    /\ allPc.k <= Len(Lotteries)
    /\ \E o \in SyncData(AtLottery, lotteryStores[AtLottery], FALSE, remoteLatest, clock) :
          /\ results' = [results EXCEPT ![AtLottery] = o.draws]
          /\ errors' = IF o.threw THEN errors \cup {AtLottery} ELSE errors
          /\ lotteryStores' = [lotteryStores EXCEPT ![AtLottery] = o.store]
    /\ allPc' = [allPc EXCEPT !.k = allPc.k + 1]
    /\ UNCHANGED <<allAttempt, besideAll>>

\* syncAllLotteries returns { results, errors }
SyncAllReturns ==
    /\ allPc.at = "syncAllLotteries"
    /\ allPc.k > Len(Lotteries)
    /\ allPc' = [at |-> "saveDataToFile", k |-> 1]
    /\ UNCHANGED <<lotteryStores, results, errors, allAttempt, besideAll>>

\* every result is saved
SavesAlways(draws) == TRUE

\* syncWithRetry: if (draws.length > 0)
Saves(draws) == Len(draws) > 0

\* syncWithRetry: a result that is not saved
SkipSave ==
    /\ allPc.at = "saveDataToFile"
    /\ allPc.k <= Len(Lotteries)
    /\ ~Saves(results[AtLottery])
    /\ allPc' = [allPc EXCEPT !.k = allPc.k + 1]
    /\ UNCHANGED <<lotteryStores, results, errors, allAttempt, besideAll>>

\* saveDataToFile: fs.writeFile opens the file, which truncates it
SaveOpens ==
    /\ allPc.at = "saveDataToFile"
    /\ allPc.k <= Len(Lotteries)
    /\ Saves(results[AtLottery])
    /\ lotteryStores' = [lotteryStores EXCEPT ![AtLottery] = Partial]
    /\ allPc' = [allPc EXCEPT !.at = "writeFile"]
    /\ UNCHANGED <<results, errors, allAttempt, besideAll>>

\* saveDataToFile: fs.writeFile completes
SaveDone ==
    /\ allPc.at = "writeFile"
    /\ lotteryStores' = [lotteryStores EXCEPT
           ![AtLottery] = LotteryDocument(AtLottery, results[AtLottery], clock)]
    /\ allPc' = [at |-> "saveDataToFile", k |-> allPc.k + 1]
    /\ UNCHANGED <<results, errors, allAttempt, besideAll>>

\* saveDataToFile throws: the catch of syncWithRetry, and the next attempt
SaveFails ==
    /\ \/ allPc.at = "writeFile"
       \/ allPc.at = "saveDataToFile" /\ allPc.k <= Len(Lotteries) /\ Saves(results[AtLottery])
    /\ IF allAttempt < maxRetries
       THEN /\ allAttempt' = allAttempt + 1
            /\ allPc' = [at |-> "syncAllLotteries", k |-> 1]
            /\ results' = [l \in Range(Lotteries) |-> <<>>]
            /\ errors' = {}
       ELSE /\ allPc' = [allPc EXCEPT !.at = "thrown"]
            /\ UNCHANGED <<allAttempt, results, errors>>
    /\ UNCHANGED <<lotteryStores, besideAll>>

\* syncWithRetry returns { results, errors }
AllReturn ==
    /\ allPc.at = "saveDataToFile"
    /\ allPc.k > Len(Lotteries)
    /\ allPc' = [allPc EXCEPT !.at = "returned"]
    /\ UNCHANGED <<lotteryStores, results, errors, allAttempt, besideAll>>

\* the stores syncWithRetry may find
AllInit ==
    /\ \E found \in SUBSET Range(Lotteries) :
          lotteryStores = [l \in Range(Lotteries) |->
              IF l \in found THEN LotteryDocument(l, DrawsOf({1}), 0) ELSE Absent]
    /\ results = [l \in Range(Lotteries) |-> <<>>]
    /\ errors = {}
    /\ allPc = [at |-> "syncAllLotteries", k |-> 1]
    /\ allAttempt = 1
    /\ ReportsIdle
    /\ SchedulerIdle
    /\ FlightIdle
    /\ RequestIdle
    /\ BackupIdle
    /\ EngineIdle
    /\ payload = Payload(0, <<>>)
    /\ validation = NotTransformed
    /\ store = Absent
    /\ remoteLatest \in 1..MaxContest
    /\ clock = 1
    /\ pc = [p \in Procs |-> "idle"]
    /\ caller = [p \in Procs |-> "syncWithRetry"]
    /\ forceFullSync = [p \in Procs |-> FALSE]
    /\ existingDraws = [p \in Procs |-> <<>>]
    /\ latestContestNumber = [p \in Procs |-> 0]
    /\ contestsToFetch = [p \in Procs |-> <<>>]
    /\ i = [p \in Procs |-> 0]
    /\ newDraws = [p \in Procs |-> <<>>]
    /\ data = [p \in Procs |-> Absent]
    /\ result = [p \in Procs |-> <<>>]
    /\ outcome = [p \in Procs |-> "none"]
    /\ attempt = [p \in Procs |-> 1]
    /\ storeAtStart = [p \in Procs |-> Absent]
    /\ failed = [p \in Procs |-> {}]
    /\ log = [p \in Procs |-> <<>>]

AllNext ==
    \/ SyncLottery \/ SyncAllReturns
    \/ SkipSave \/ SaveOpens \/ SaveDone \/ SaveFails
    \/ AllReturn

SpecAll == AllInit /\ [][AllNext]_vars

(***************************************************************************)
(* The status endpoints: api/get-updated-data, api/lottery-status and      *)
(* api/simple-status, asked about Mega-Sena.  Each reads the store and     *)
(* answers; none writes.  A response is kept with the feed's latest        *)
(* contest at the time it was given.                                       *)
(***************************************************************************)
besideReports == <<store, clock, pc, locals, history, log, payload, validation,
                   batchPromises, request, backupVars, engine, allSync, scheduler>>

\* a response: whether it says anything about being up to date, what it
\* says, and the highest contest of the collection it describes
Statement(handler, upToDate, lastContest) ==
    [handler |-> handler, stated |-> TRUE, upToDate |-> upToDate,
     lastContest |-> lastContest, latest |-> remoteLatest]
NoStatement(handler) ==
    [handler |-> handler, stated |-> FALSE, upToDate |-> FALSE,
     lastContest |-> 0, latest |-> remoteLatest]

\* Math.max(lastLocalContest + 1, latestAPIContest - maxNew + 1)
StartContest(lastLocalContest, latestAPIContest) ==
    LET maxNew == Min(maxNewContests, latestAPIContest - lastLocalContest)
    IN Max(lastLocalContest + 1, latestAPIContest - maxNew + 1)

\* the contests of the loop `for (let i = startContest; i <= latestAPIContest; i++)`
ContestsFrom(startContest, latestAPIContest) ==
    [k \in 1..Max(0, latestAPIContest - startContest + 1) |-> startContest + k - 1]

\* .filter((draw, index, arr) => arr.findIndex(d => d.concurso === draw.concurso) === index)
RECURSIVE FirstOfEachContest(_)
FirstOfEachContest(draws) ==
    IF draws = <<>> THEN <<>>
    ELSE LET before == SubSeq(draws, 1, Len(draws) - 1)
             draw == draws[Len(draws)]
         IN IF draw.concurso \in ContestNumbers(before) THEN FirstOfEachContest(before)
            ELSE Append(FirstOfEachContest(before), draw)

\* summary.upToDate of get-updated-data: newDraws.length === 0
SummaryUpToDate(new) == Len(new) = 0

\* the response of get-updated-data when the requests of the loop are answered
\* by `responses`
UpdatedSummary(responses) ==
    LET cached == IF store.kind = "doc" THEN store.draws ELSE <<>>
        fetched == [k \in 1..Len(responses) |-> Transformed(responses[k])]
        new == SelectSeq(fetched, NotNull)
        allDraws == SortDraws(FirstOfEachContest(cached \o new))
    IN Statement("get-updated-data",
                 SummaryUpToDate(new),
                 LastLocal(allDraws))

\* GET /api/get-updated-data?lottery=megasena; a store that cannot be parsed
\* and a failed request for the latest contest end in the status 500
GetUpdatedData ==
    /\ Len(reports) < MaxReports
    /\ \E latestOk \in BOOLEAN :
          IF store.kind = "partial" \/ ~latestOk
          THEN reports' = Append(reports, NoStatement("get-updated-data"))
          ELSE LET lastLocalContest == LastLocal(store.draws)
                   contests == IF remoteLatest > lastLocalContest
                               THEN ContestsFrom(StartContest(lastLocalContest, remoteLatest),
                                                 remoteLatest)
                               ELSE <<>>
               IN \E responses \in ResponseSeqs(contests, remoteLatest) :
                      reports' = Append(reports, UpdatedSummary(responses))
    /\ UNCHANGED <<remoteLatest, besideReports>>

\* status[lotteryId].api of lottery-status
ApiStatus(lastContest, apiLatest) ==
    Statement("lottery-status", lastContest >= apiLatest, lastContest)

\* GET /api/lottery-status: no statement without a readable file, without
\* draws, or when the latest contest cannot be fetched
LotteryStatus ==
    /\ Len(reports) < MaxReports
    /\ \E latestOk \in BOOLEAN :
          reports' = Append(reports,
              IF store.kind = "doc" /\ Len(store.draws) > 0 /\ latestOk
              THEN ApiStatus(LastLocal(store.draws), remoteLatest)
              ELSE NoStatement("lottery-status"))
    /\ UNCHANGED <<remoteLatest, besideReports>>

\* GET /api/simple-status: `isUpToDate: true` whenever the file has draws
SimpleStatus ==
    /\ Len(reports) < MaxReports
    /\ reports' = Append(reports,
          IF store.kind = "doc" /\ Len(store.draws) > 0
          THEN Statement("simple-status", TRUE, LastLocal(store.draws))
          ELSE NoStatement("simple-status"))
    /\ UNCHANGED <<remoteLatest, besideReports>>

\* the stores the endpoints may find
ReportStores ==
    {Absent, Partial} \cup
    {CacheDocument(DrawsOf(S), 0) : S \in SUBSET (1..MaxContest)}

ReportInit ==
    /\ store \in ReportStores
    /\ remoteLatest \in 1..MaxContest
    /\ clock = 1
    /\ pc = [p \in Procs |-> "idle"]
    /\ caller = [p \in Procs |-> "getLotteryData"]
    /\ forceFullSync = [p \in Procs |-> FALSE]
    /\ existingDraws = [p \in Procs |-> <<>>]
    /\ latestContestNumber = [p \in Procs |-> 0]
    /\ contestsToFetch = [p \in Procs |-> <<>>]
    /\ i = [p \in Procs |-> 0]
    /\ newDraws = [p \in Procs |-> <<>>]
    /\ data = [p \in Procs |-> Absent]
    /\ result = [p \in Procs |-> <<>>]
    /\ outcome = [p \in Procs |-> "none"]
    /\ attempt = [p \in Procs |-> 1]
    /\ storeAtStart = [p \in Procs |-> Absent]
    /\ failed = [p \in Procs |-> {}]
    /\ log = [p \in Procs |-> <<>>]
    /\ payload = Payload(0, <<>>)
    /\ validation = NotTransformed
    /\ AsideInit

ReportNext == GetUpdatedData \/ LotteryStatus \/ SimpleStatus \/ NewContest

SpecReport == ReportInit /\ [][ReportNext]_vars

(***************************************************************************)
(* scheduleDailySync: the process that called it, its timers and the runs  *)
(* of main they start.  main never rejects: Logger catches its own errors  *)
(* and the catch of main ends the process.                                 *)
(***************************************************************************)
besideScheduler == <<store, remoteLatest, clock, pc, locals, history, log, payload,
                     validation, batchPromises, request, backupVars, engine, allSync,
                     reports>>

\* the last hour the clock of the model reaches
LastHour == (MaxDays + 1) * 24

\* tomorrow.setDate(tomorrow.getDate() + 1); tomorrow.setHours(6, 0, 0, 0)
Tomorrow(now) == ((now \div 24) + 1) * 24 + 6

\* setTimeout(() => main().then(...).catch(...), msUntilTomorrow)
RunTimer(now) == [fn |-> "main", at |-> Tomorrow(now)]

\* scheduleDailySync() is called, at any hour of the first day
ScheduleDailySync ==
    /\ schedPc = "idle"
    /\ timers' = timers \cup {RunTimer(hour)}
    /\ schedPc' = "waiting"
    /\ UNCHANGED <<hour, besideScheduler>>

\* an hour passes while no timer is due
Tick ==
    /\ schedPc \in {"waiting", "main"}
    /\ hour < LastHour
    /\ \A t \in timers : t.at > hour
    /\ hour' = hour + 1
    /\ UNCHANGED <<timers, schedPc, besideScheduler>>

\* a timer is due: its callback calls main()
TimerFires ==
    /\ schedPc = "waiting"
    /\ \E t \in timers :
          /\ t.at <= hour
          /\ timers' = timers \ {t}
    /\ schedPc' = "main"
    /\ UNCHANGED <<hour, besideScheduler>>

\* main() resolves: then() calls scheduleDailySync()
MainResolves ==
    /\ schedPc = "main"
    /\ timers' = timers \cup {RunTimer(hour)}
    /\ schedPc' = "waiting"
    /\ UNCHANGED <<hour, besideScheduler>>

\* the synchronization fails: the catch of main logs and calls process.exit(1),
\* and the timers end with the process
MainExits ==
    /\ schedPc = "main"
    /\ timers' = {}
    /\ schedPc' = "exited"
    /\ UNCHANGED <<hour, besideScheduler>>

ScheduleInit ==
    /\ timers = {}
    /\ hour \in 0..23
    /\ schedPc = "idle"
    /\ AllIdle
    /\ ReportsIdle
    /\ FlightIdle
    /\ RequestIdle
    /\ BackupIdle
    /\ EngineIdle
    /\ payload = Payload(0, <<>>)
    /\ validation = NotTransformed
    /\ CyclesIdle

ScheduleNext == ScheduleDailySync \/ Tick \/ TimerFires \/ MainResolves \/ MainExits

SpecSchedule == ScheduleInit /\ [][ScheduleNext]_vars

(***************************************************************************)
(* Properties.                                                             *)
(***************************************************************************)
StrictlyAscending(draws) ==
    \A k \in 1..(Len(draws) - 1) : draws[k].concurso < draws[k + 1].concurso

\* the cycle of p is over and its caller has its answer
CycleOver(p) == pc[p] \in {"returned", "thrown"} /\ outcome[p] # "none"

\* C1: after any sync cycle the collection that is persisted and the one that
\* is returned have unique contest numbers, strictly ascending by position.
C1_UniqueAscending ==
    /\ store.kind = "doc" => StrictlyAscending(store.draws)
    /\ \A p \in Procs : CycleOver(p) => StrictlyAscending(result[p])

\* the missing set of the specification's gap analysis for a non-empty cache:
\* the holes of [min(existing) .. max(existing)] and max(existing)+1 .. latest
HolesAndNew(existing, latest) ==
    LET lo == CHOOSE m \in existing : \A x \in existing : m <= x
        hi == MathMax(existing)
    IN {n \in lo..hi : n \notin existing} \cup ((hi + 1)..latest)

\* the gap analysis of p's cycle has run
Analysed(p) == pc[p] \in {"fetchBatch", "fetchContest"} \/ outcome[p] = "upToDate"

C3_BackfillWindow ==
    \A p \in Procs :
        Analysed(p) /\ existingDraws[p] = <<>> =>
            Range(contestsToFetch[p]) =
                Max(1, latestContestNumber[p] - WINDOW + 1)..latestContestNumber[p]

\* C4: when syncData has saved, the contest numbers of the new collection are
\* those of the loaded collection united with those of the draws fetched and
\* validated in the cycle.
C4_Union ==
    \A p \in Procs :
        caller[p] # "syncLottery" /\ outcome[p] = "synced" =>
            /\ ContestNumbers(result[p]) =
                   ContestNumbers(existingDraws[p]) \cup ContestNumbers(newDraws[p])
            /\ data[p].kind = "doc" =>
                   ContestNumbers(data[p].draws) =
                       ContestNumbers(existingDraws[p]) \cup ContestNumbers(newDraws[p])

C4_Witness ==
    \E p \in Procs :
        /\ caller[p] # "syncLottery" /\ outcome[p] = "synced"
        /\ existingDraws[p] # <<>> /\ newDraws[p] # <<>>
        /\ store.kind = "doc" /\ Len(store.draws) > Len(existingDraws[p])

\* C5: a contest whose fetch failed or gave an invalid payload in one cycle
\* and that the cache still lacks is among the contests the invoker's next
\* gap analysis decides to fetch.
C5_FailedRetried ==
    [][\A p \in Procs :
          (pc[p] \in {"fetchLatest", "fetchLatestAPI"}
              /\ (pc'[p] \in {"fetchBatch", "fetchContest"} \/ outcome'[p] = "upToDate"))
          => (failed[p] \ ContestNumbers(existingDraws[p]))
                 \subseteq Range(contestsToFetch'[p])]_vars

\* C6: the store is append-only: every record the persisted collection held
\* before a cycle is in the persisted collection after it.
C6_AppendOnly ==
    \A p \in Procs :
        CycleOver(p) /\ storeAtStart[p].kind = "doc" =>
            /\ store.kind = "doc"
            /\ Range(storeAtStart[p].draws) \subseteq Range(store.draws)

\* C7: save is atomic: the store never holds a truncated or partial document.
C7_AtomicSave == store.kind \in {"absent", "doc"}

\* C8: at most one sync cycle of the variant is in flight at a time.
C8_OneCycleInFlight ==
    \A p, q \in Procs : p # q => pc[p] \in Ended \/ pc[q] \in Ended

\* C9: while a cycle loads, resolves the remote latest, fetches and merges,
\* and when it is terminated there, the store is what it was when the cycle
\* began.
C9_NoWriteBeforeSave ==
    \A p \in Procs :
        pc[p] \in BeforeSave \/ (pc[p] = "killed" /\ outcome[p] = "killedBeforeSave")
            => store = storeAtStart[p]

C9_Witness ==
    \E p \in Procs :
        /\ pc[p] = "killed" /\ outcome[p] = "killedBeforeSave"
        /\ store.kind = "doc" /\ store.draws # <<>>
        /\ failed[p] # {}

\* C10: a cycle that ends as already up to date has issued no per-contest
\* fetch and leaves the store, metadata included, as it found it.
C10_UpToDateNoWrite ==
    \A p \in Procs :
        outcome[p] = "upToDate" =>
            /\ store = storeAtStart[p]
            /\ contestsToFetch[p] = <<>> /\ i[p] = 0 /\ newDraws[p] = <<>>

\* the cycle of p has returned to its caller without an error
Succeeded(p) == pc[p] = "returned" /\ outcome[p] \in {"synced", "upToDate"}

\* C11: a cycle that succeeds on a store which an earlier cycle had already
\* brought up to the remote latest contest, the remote unchanged since, leaves
\* the persisted document as it found it.
C11_Idempotent ==
    \A p \in Procs :
        (/\ Succeeded(p)
         /\ storeAtStart[p].kind = "doc"
         /\ ContestNumbers(storeAtStart[p].draws) = 1..remoteLatest)
            => store = storeAtStart[p]

\* C12: mergeDraws holds one record for every contest of either side, and
\* for a contest of both sides the existing record.
C12_OnePerContestExistingWins ==
    \A p \in Procs :
        pc[p] = "saveToCache" =>
            LET merged == mergeDraws(existingDraws[p], newDraws[p])
            IN /\ ContestNumbers(merged) =
                      ContestNumbers(existingDraws[p]) \cup ContestNumbers(newDraws[p])
               /\ Len(merged) = Cardinality(ContestNumbers(merged))
               /\ \A k \in 1..Len(merged) :
                      merged[k].concurso \in ContestNumbers(existingDraws[p])
                          => merged[k] \in Range(existingDraws[p])

\* the cycle of p has decided what to fetch, and failed[p] holds the
\* requests of this cycle that gave no draw
Fetching(p) == contestsToFetch[p] # <<>>

\* C13: a request that fails or gives an invalid payload does not end the
\* loop or the cycle: every other contest is requested and gives its draw,
\* the draws fetched are merged and handed to the save, and only the save
\* can make the cycle fail.
C13_FailureDoesNotAbort ==
    \A p \in Procs :
        Fetching(p) /\ failed[p] # {} =>
            /\ Len(newDraws[p]) + Cardinality(failed[p]) = Min(i[p], Len(contestsToFetch[p]))
            /\ pc[p] \notin {"fetchBatch", "fetchContest"} => i[p] >= Len(contestsToFetch[p])
            /\ pc[p] \in {"catch", "thrown"} \/ outcome[p] = "failed" => data[p].kind = "doc"
            /\ data[p].kind = "doc" =>
                   ContestNumbers(newDraws[p]) \subseteq ContestNumbers(data[p].draws)
            /\ outcome[p] = "synced" =>
                   ContestNumbers(newDraws[p]) \subseteq ContestNumbers(result[p])
            /\ outcome[p] = "synced" /\ pc[p] = "returned" =>
                   /\ store.kind = "doc"
                   /\ ContestNumbers(newDraws[p]) \subseteq ContestNumbers(store.draws)

C13_Witness ==
    \E p \in Procs :
        /\ pc[p] = "returned" /\ outcome[p] = "synced" /\ caller[p] = "getLotteryData"
        /\ Len(contestsToFetch[p]) > batchSize
        /\ failed[p] = {contestsToFetch[p][1]}
        /\ Len(newDraws[p]) = Len(contestsToFetch[p]) - 1

\* C14: after a cycle in which every request gave the draw of the contest
\* asked for, the collection holds every contest from its lowest one up to
\* the remote latest.
C14_NoGaps ==
    \A p \in Procs :
        (/\ Fetching(p) /\ outcome[p] = "synced" /\ failed[p] = {}
         /\ ContestNumbers(newDraws[p]) = Range(contestsToFetch[p])
         /\ store.kind = "doc")
            => LET have == ContestNumbers(store.draws)
                   lowest == CHOOSE m \in have : \A x \in have : m <= x
               IN have = lowest..latestContestNumber[p]

\* the batches of a log, in order
Batches(l) == SelectSeq(l, LAMBDA e : e.kind = "batch")

\* C20: fetchContestsInBatches requests n contests in ceil(n / batchSize)
\* consecutive batches, all of batchSize contests but possibly the last, and
\* waits between every two consecutive batches.
C20_BatchesAndDelays ==
    \A p \in Procs :
        pc[p] # "fetchBatch" /\ log[p] # <<>> =>
            LET n == Len(contestsToFetch[p])
                b == Batches(log[p])
            IN /\ Len(b) = (n + batchSize - 1) \div batchSize
               /\ \A k \in 1..Len(b) :
                     /\ Len(b[k].contests) =
                            IF k < Len(b) THEN batchSize ELSE n - batchSize * (Len(b) - 1)
                     /\ \A j \in 1..Len(b[k].contests) :
                            b[k].contests[j] = contestsToFetch[p][batchSize * (k - 1) + j]
               /\ log[p][1].kind = "batch"
               /\ \A k \in 1..(Len(log[p]) - 1) :
                     log[p][k].kind = "batch" => log[p][k + 1].kind = "delay"

C20_Witness ==
    \E p \in Procs :
        /\ pc[p] = "saveToCache" /\ Len(contestsToFetch[p]) = 12
        /\ Len(Batches(log[p])) = 3 /\ Len(log[p]) = 5
        /\ Len(log[p][5].contests) = 2

\* the cycle of p could not determine the remote latest contest, and the
\* caller of syncData has not begun a save of its own
LookupFailed(p) ==
    /\ latestContestNumber[p] = 0
    /\ pc[p] = "catch" \/ outcome[p] \in {"cached", "failed"}
    /\ data[p] = Absent

C16_FailedReturnsPrior ==
    \A p \in Procs :
        (/\ caller[p] # "syncLottery"
         /\ pc[p] \in {"returned", "thrown"} /\ outcome[p] \in {"cached", "failed"}) =>
            /\ pc[p] = "returned"
            /\ result[p] = existingDraws[p]

\* the list of drawn numbers the payload carries
PayloadList(apiData) ==
    IF apiData.listaDezenas.def THEN apiData.listaDezenas.arr
    ELSE apiData.dezenasSorteadasOrdemSorteio.arr

\* C17: a payload whose list has not exactly numbersCount entries, or has an
\* entry that is no number within minNumber..maxNumber, gives no record.
C17_RejectsInvalid ==
    validation.done =>
        LET l == PayloadList(payload)
        IN (Len(l) # numbersCount \/ \E k \in 1..Len(l) : ~InRange(parseInt(l[k])))
               => validation.manager.null /\ validation.script.null

\* the numbers of a record: numbersCount integers within minNumber..maxNumber,
\* ascending, none repeated
WellFormed(draw) ==
    /\ Len(draw.numeros) = numbersCount
    /\ \A k \in 1..Len(draw.numeros) :
          draw.numeros[k] >= minNumber /\ draw.numeros[k] <= maxNumber
    /\ \A k \in 1..(Len(draw.numeros) - 1) : draw.numeros[k] < draw.numeros[k + 1]

\* C18: every record the validation lets through is well formed.
C18_RecordsWellFormed ==
    validation.done =>
        /\ ~validation.manager.null => WellFormed(validation.manager)
        /\ ~validation.script.null => WellFormed(validation.script)

\* the contests a report lists as failed
FailureList(report) ==
    IF "failures" \in DOMAIN report THEN report.failures ELSE {}

\* C19: the report of a cycle lists every contest whose request failed or
\* whose payload was rejected, and such failures do not make it a failure.
C19_FailuresReported ==
    \A p \in Procs :
        pc[p] = "returned" /\ Fetching(p) /\ outcome[p] \in {"synced", "noneValid"} =>
            /\ failed[p] \subseteq FailureList(Report(p))
            /\ caller[p] = "syncLottery" => Report(p).success
            /\ caller[p] = "syncWithRetry" => Report(p).errors = {}

\* the requests of p that have been started and have not settled
Outstanding(p) == {k \in 1..Len(batchPromises[p]) : ~batchPromises[p][k].settled}

\* the requests in flight are at most batchSize, all of them of the batch
\* under way, and the results of every earlier batch have been collected
InFlightBounded(p) ==
    /\ Cardinality(InFlight(p)) <= batchSize
    /\ Len(batchPromises[p]) <= batchSize
    /\ batchPromises[p] # <<>> =>
           /\ InFlight(p) \subseteq
                  {contestsToFetch[p][k] : k \in (i[p] + 1)..Min(i[p] + batchSize,
                                                              Len(contestsToFetch[p]))}
           /\ Len(newDraws[p]) + Cardinality(failed[p]) = i[p]

\* C21: during fetchContestsInBatches at most batchSize requests are in
\* flight, all of them of the batch under way; when requests are in flight the
\* results of every earlier batch have been collected, and requests start,
\* and the loop moves on, only when none is outstanding.
C21_BoundedNoOverlap ==
    [][\A p \in Procs :
          /\ InFlightBounded(p)'
          /\ (Outstanding(p)' \ Outstanding(p) # {} \/ i'[p] # i[p]) => Outstanding(p) = {}]_vars

C21_Witness ==
    \E p \in Procs :
        /\ pc[p] = "promiseAll" /\ i[p] = batchSize
        /\ Cardinality(InFlight(p)) = batchSize
        /\ Len(newDraws[p]) = batchSize - 1 /\ Cardinality(failed[p]) = 1

\* the request has made its attempts: one for every error, and the one that
\* succeeded
Attempts(r) == Len(r.errors) + (IF r.status = "resolved" THEN 1 ELSE 0)

\* C22: a remote request, for the latest contest or for a given one, makes
\* at most `retries` attempts, waits before every further attempt twice as
\* long as before the previous one, and reports failure only after the
\* last attempt has failed.
C22_RetryWithBackoff ==
    request.status \in {"resolved", "rejected"} =>
        /\ Attempts(request) <= retries
        /\ request.status = "rejected" => Len(request.errors) = retries
        /\ Len(request.waited) = Attempts(request) - 1
        /\ \A k \in 1..(Len(request.waited) - 1) : request.waited[k + 1] = 2 * request.waited[k]

\* a save of p has opened the store for writing
Writing(p) == pc[p] \in {"saveToCacheWriting", "saveDataToFileWriting", "writeFileWriting"}

\* C23: every save is preceded, in its cycle, by a snapshot of the persisted
\* collection: while a cycle writes the store, ./backups holds a copy of the
\* document the store held when the cycle began.
C23_SnapshotBeforeSave ==
    \A p \in Procs :
        Writing(p) /\ storeAtStart[p].kind = "doc" /\ storeAtStart[p].draws # <<>> =>
            \E b \in backups : MatchesDate(b.name) /\ b.files = storeAtStart[p]

\* C24: a failure of createBackup is a warning only: it never ends the run
\* of the script, which goes on to synchronise.
C24_BackupFailureNotFatal ==
    \A p \in Procs : ~(pc[p] = "exited" /\ outcome[p] = "backupFailed")

\* the entries of ./backups that createBackup made
Snapshots == {b \in backups : b.name = IsoString(b.time)}

\* createBackup has returned
BackupCompleted(p) == pc[p] = "loadFromCache" /\ backupPath # <<>>

C26_FirstNonEmptyWins ==
    (/\ validation.done
     /\ ~payload.listaDezenas.def \/ payload.listaDezenas.arr = <<>>
     /\ payload.dezenasSorteadasOrdemSorteio.def
     /\ payload.dezenasSorteadasOrdemSorteio.arr = DezenasA) =>
        /\ ~validation.manager.null /\ WellFormed(validation.manager)
        /\ ~validation.script.null /\ WellFormed(validation.script)

\* C27: loadFromCache, when no store exists, returns the empty collection
\* (no draws, lastUpdate null) and raises nothing: the cycle goes on to ask
\* for the latest contest, with no existing draws and the store untouched.
C27_LoadOfNoStore ==
    [][\A p \in Procs :
          (pc[p] = "loadFromCache" /\ pc'[p] \notin {"loadFromCache", "killed"}
               /\ store.kind = "absent") =>
              /\ \A readOk \in BOOLEAN :
                    /\ loadFromCache(readOk).draws = <<>>
                    /\ loadFromCache(readOk).metadata.lastUpdate.null
                    /\ loadFromCache(readOk).metadata.totalDraws = 0
              /\ pc'[p] = "fetchLatest"
              /\ existingDraws'[p] = <<>>
              /\ store' = store]_vars

C27_Witness ==
    \E p \in Procs :
        /\ storeAtStart[p].kind = "absent"
        /\ \A q \in Procs \ {p} : pc[q] = "idle"
        /\ pc[p] = "returned" /\ outcome[p] = "synced"
        /\ existingDraws[p] = <<>>
        /\ Len(result[p]) = remoteLatest
        /\ store.kind = "doc" /\ store.draws = result[p]

\* a generation function is running
Generating ==
    enginePc \in {"generatePureRandom", "fillRemainingSafe", "generateCombinatorial",
                  "constraints", "generateGoldenRatio", "fillRandomly"}

\* C28: a generation function that is running can always take a step that
\* changes its state, towards its iteration limit or towards its result: it
\* is never left with a loop none of whose iterations does anything.
C28_NoEndlessLoop == Generating => ENABLED <<GenerateNext>>_vars

\* the combinations hold no set of numbers twice and are numbered 1..n
UniqueAndNumbered(combos) ==
    /\ \A j, k \in 1..Len(combos) :
          j # k => Range(combos[j].numbers) # Range(combos[k].numbers)
    /\ \A k \in 1..Len(combos) : combos[k].id = k

\* C29: generateMultipleCombinations never holds two combinations with the
\* same set of numbers, holds at most count combinations, makes at most
\* count * 50 attempts and returns only with count combinations or after that
\* many attempts; an accepted combination goes after those before it, which
\* stay as they are, so that the ids 1..n are in the order of acceptance.
C29_UniqueBoundedNumbered ==
    [][/\ UniqueAndNumbered(combinations')
       /\ Len(combinations') <= call.count
       /\ attempts' <= call.count * 50
       /\ Len(combinations') >= Len(combinations)
       /\ SubSeq(combinations', 1, Len(combinations)) = combinations
       /\ enginePc' = "returned" =>
              Len(combinations') = call.count \/ attempts' = call.count * 50]_vars

C29_Witness ==
    /\ call.fn = "generateMultipleCombinations" /\ call.strategy = "combinatorial"
    /\ enginePc = "returned"
    /\ call.count = 2 /\ Len(combinations) = 2
    /\ attempts = 4
    /\ call.options.include = {1}

\* C30: syncWithRetry makes at most maxRetries attempts, and it returns a
\* synchronization that failed for a lottery only from the last of them:
\* after an earlier attempt with a failure it starts another one.
C30_FailedSyncRetried ==
    \A p \in Procs :
        caller[p] = "syncWithRetry" =>
            /\ attempt[p] <= maxRetries
            /\ (pc[p] = "returned" /\ SyncAllReport(p).errors # {}) => attempt[p] = maxRetries

\* C31: every record a cycle has fetched carries a contest number that the
\* cycle requested.
C31_RecordsWereRequested ==
    \A p \in Procs : ContestNumbers(newDraws[p]) \subseteq Range(contestsToFetch[p])

\* C32: a lottery whose syncData throws gets an entry in errors and the
\* result [], and the loop goes on with the next lottery; syncWithRetry then
\* writes to the store of a lottery only a result that has draws, never that
\* of a lottery in errors.
C32_ErrorsDoNotStopOrOverwrite ==
    [][/\ \A l \in errors' \ errors :
             /\ l = AtLottery
             /\ results'[l] = <<>>
             /\ allPc' = [at |-> "syncAllLotteries", k |-> allPc.k + 1]
       /\ allPc.at \in {"saveDataToFile", "writeFile"} =>
             \A l \in Range(Lotteries) :
                 lotteryStores'[l] # lotteryStores[l] =>
                     l \notin errors /\ results[l] # <<>>]_vars

C32_Witness ==
    /\ allPc.at = "returned"
    /\ errors = {"lotofacil"}
    /\ results["lotofacil"] = <<>>
    /\ lotteryStores["lotofacil"] = LotteryDocument("lotofacil", DrawsOf({1}), 0)
    /\ Len(results["megasena"]) = 2
    /\ lotteryStores["megasena"] = LotteryDocument("megasena", results["megasena"], clock)

\* a request of p's batch can still be answered, and all of them are
Answerable(p) == \E k \in 1..Len(batchPromises[p]) : batchPromises[p][k] = Pending
AllSettled(p) == \A k \in 1..Len(batchPromises[p]) : batchPromises[p][k].settled

\* C33: a cycle that waits for the requests of a batch is never left with
\* nothing that can happen, also when a request gets no response: either a
\* request can still be answered, or all are settled and the cycle goes on.
C33_NoEndlessWait ==
    \A p \in Procs : pc[p] = "promiseAll" => (Answerable(p) \/ AllSettled(p))

\* C34: a response says upToDate (isUpToDate) true only when the highest
\* contest of its collection is at least the feed's latest contest.
C34_UpToDateOnlyAtLatest ==
    \A k \in 1..Len(reports) :
        (reports[k].stated /\ reports[k].upToDate) => reports[k].lastContest >= reports[k].latest

\* C35: once scheduleDailySync has been called the schedule stays alive:
\* exactly one timer is pending, but while the run it started is under way.
C35_ScheduleAlive ==
    schedPc # "idle" =>
        IF schedPc = "main" THEN timers = {} ELSE Cardinality(timers) = 1

\* the metadata of the document s counts its draws and names the lottery id
MetadataMatches(s, id) ==
    s.kind = "doc" =>
        /\ s.metadata.totalDraws = Len(s.draws)
        /\ s.metadata.lotteryType = id

\* C36: in every document written to the store of a lottery, and in every
\* document a writer has built to write it, metadata.totalDraws is the number
\* of entries of draws and metadata.lotteryType is the id of the lottery.
C36_MetadataMatches ==
    /\ MetadataMatches(store, "megasena")
    /\ \A p \in Procs : MetadataMatches(data[p], "megasena")
    /\ \A l \in Range(Lotteries) : MetadataMatches(lotteryStores[l], l)

\* the sync-local script has written a store of two draws
C36_Witness ==
    /\ store.kind = "doc"
    /\ Len(store.draws) = 2
    /\ store.metadata.syncSource = "local-script"

====
